---- MODULE Spec2Model ----
(***************************************************************************)
(* Model of the natal chart derivation code of astrology-mcp:              *)
(*   utils/astrology.ts      degreeToZodiacSign, formatZodiacDegree,       *)
(*                           calculateHousePositionForPlanet               *)
(*   services/aspect-calculator.ts   calculateAspects                      *)
(*   services/chart-calculator.ts    formatNatalChartData                  *)
(*                                                                         *)
(* Numbers.  The code computes on JavaScript numbers.  Here an angle is an *)
(* integer count of half micro-degrees (1 degree = UnitsPerDegree units),  *)
(* so that values with more than six decimals exist and toFixed(2) and     *)
(* toFixed(6) really round.  TLC integers are 32 bits wide, which leaves   *)
(* room for angles of magnitude below LonLimit (about 2.98 turns).         *)
(***************************************************************************)
EXTENDS Integers, Sequences, FiniteSets, TLC

VARIABLES
    pc,          \* position of the driver: "start", "done", "turned", "redone"
    degree,      \* argument of degreeToZodiacSign
    zodiac,      \* its last result
    prevZodiac,  \* the result before the argument was moved by whole turns
    signDegree,  \* argument of formatZodiacDegree
    formatted,   \* its last result
    longitude,   \* argument of calculateHousePositionForPlanet
    cusps,       \* its cusps array, indexed 0..12 (index 0 is unused)
    house,       \* its last result (0 before the first call)
    planets,     \* argument of calculateAspects
    aspectTypes, \* the module-level table ASPECT_TYPES the function reads
    aspects,     \* its last result
    prevAspects, \* the result before a body was moved by whole turns
    chartData,   \* argument of formatNatalChartData
    report,      \* its last result
    prevReport,  \* the result of the call before the last one
    toolHandlers, \* the module-level registry of tools/index.ts: tool name to handler
    requests     \* the tool calls in flight: per request its arguments, the
                 \* position of its handler, the handler's locals, the calls
                 \* it made to the geocoder and the ephemeris, its response

zodiacVars == <<degree, zodiac, prevZodiac, signDegree, formatted>>

houseVars == <<longitude, cusps, house>>

aspectVars == <<planets, aspectTypes, aspects, prevAspects>>

chartVars == <<chartData, report, prevReport>>

handlerVars == <<requests, toolHandlers>>

----------------------------------------------------------------------------
(* Number representation *)

UnitsPerDegree == 2 * 1000000

Deg(n) == n * UnitsPerDegree

FullCircle == Deg(360)

SignWidth == Deg(30)

LonLimit == Deg(1073)

Abs(x) == IF x < 0 THEN -x ELSE x

\* JavaScript's % : the remainder takes the sign of the dividend.
JsRem(a, b) == IF a >= 0 THEN a % b ELSE -((-a) % b)

\* parseFloat(x.toFixed(digits)): the nearest multiple of 10^-digits, a tie
\* going to the larger magnitude.
Pow10(n) == IF n = 0 THEN 1
            ELSE IF n = 1 THEN 10
            ELSE IF n = 2 THEN 100
            ELSE IF n = 3 THEN 1000
            ELSE IF n = 4 THEN 10000
            ELSE IF n = 5 THEN 100000
            ELSE 1000000

toFixed(x, digits) ==
    LET step == UnitsPerDegree \div Pow10(digits)
        mag  == ((Abs(x) + step \div 2) \div step) * step
    IN  IF x < 0 THEN -mag ELSE mag

----------------------------------------------------------------------------
(* constants/celestial-bodies.ts *)

ZODIAC_SIGNS ==
    << [label |-> "Aries",       key |-> "aries"],
       [label |-> "Taurus",      key |-> "taurus"],
       [label |-> "Gemini",      key |-> "gemini"],
       [label |-> "Cancer",      key |-> "cancer"],
       [label |-> "Leo",         key |-> "leo"],
       [label |-> "Virgo",       key |-> "virgo"],
       [label |-> "Libra",       key |-> "libra"],
       [label |-> "Scorpio",     key |-> "scorpio"],
       [label |-> "Sagittarius", key |-> "sagittarius"],
       [label |-> "Capricorn",   key |-> "capricorn"],
       [label |-> "Aquarius",    key |-> "aquarius"],
       [label |-> "Pisces",      key |-> "pisces"] >>

CELESTIAL_BODIES ==
    << [name |-> "Sun",       key |-> "sun"],
       [name |-> "Moon",      key |-> "moon"],
       [name |-> "Mercury",   key |-> "mercury"],
       [name |-> "Venus",     key |-> "venus"],
       [name |-> "Mars",      key |-> "mars"],
       [name |-> "Jupiter",   key |-> "jupiter"],
       [name |-> "Saturn",    key |-> "saturn"],
       [name |-> "Uranus",    key |-> "uranus"],
       [name |-> "Neptune",   key |-> "neptune"],
       [name |-> "Pluto",     key |-> "pluto"],
       [name |-> "Mean Node", key |-> "meannode"],
       [name |-> "True Node", key |-> "truenode"],
       [name |-> "Chiron",    key |-> "chiron"] >>

----------------------------------------------------------------------------
(* utils/astrology.ts *)

\* A faulty variant of Normalize360: the "+ 360" that repairs a negative remainder
\* is left out.
Normalize360NoRepair(x) == JsRem(x, FullCircle)

\* ((x % 360) + 360) % 360
Normalize360(x) == JsRem(JsRem(x, FullCircle) + FullCircle, FullCircle)

\* Reading ZODIAC_SIGNS[signIndex].label with signIndex outside the table
\* raises a TypeError.
ZodiacTypeError == [sign |-> "TypeError", signKey |-> "TypeError", degreeInSign |-> 0]

\* A faulty variant of degreeToZodiacSign: the sign is taken from the normalized
\* degree, the degree within the sign from the raw argument.
degreeToZodiacSignRawRemainder(x) ==
    LET normalizedDegree == Normalize360(x)
        signIndex        == normalizedDegree \div SignWidth
    IN  IF signIndex + 1 \in DOMAIN ZODIAC_SIGNS
        THEN [sign         |-> ZODIAC_SIGNS[signIndex + 1].label,
              signKey      |-> ZODIAC_SIGNS[signIndex + 1].key,
              degreeInSign |-> JsRem(x, SignWidth)]
        ELSE ZodiacTypeError

degreeToZodiacSign(x) ==
    LET normalizedDegree == Normalize360(x)
        signIndex        == normalizedDegree \div SignWidth
        degreeInSign     == JsRem(normalizedDegree, SignWidth)
    IN  IF signIndex + 1 \in DOMAIN ZODIAC_SIGNS
        THEN [sign         |-> ZODIAC_SIGNS[signIndex + 1].label,
              signKey      |-> ZODIAC_SIGNS[signIndex + 1].key,
              degreeInSign |-> degreeInSign]
        ELSE ZodiacTypeError

\* A faulty variant of formatZodiacDegree: the seconds are rounded to the
\* nearest whole second.
formatZodiacDegreeRoundedSeconds(x) ==
    LET deg     == x \div UnitsPerDegree
        minutes == (x - deg * UnitsPerDegree) * 60
        min     == minutes \div UnitsPerDegree
        sec     == ((minutes - min * UnitsPerDegree) * 60 + UnitsPerDegree \div 2) \div UnitsPerDegree
    IN  [deg |-> deg, min |-> min, sec |-> sec]

\* `${deg}\u00b0 ${min}' ${sec}"`: the string is written here as the three
\* integers it prints.
formatZodiacDegree(x) ==
    LET deg     == x \div UnitsPerDegree
        minutes == (x - deg * UnitsPerDegree) * 60
        min     == minutes \div UnitsPerDegree
        sec     == ((minutes - min * UnitsPerDegree) * 60) \div UnitsPerDegree
    IN  [deg |-> deg, min |-> min, sec |-> sec]

\* A cusp that is no number: NaN, or undefined read past the end of a short
\* array.  Every comparison with it is false.
NaN == 0 - 2147483647

IsNumber(v) == v # NaN

JsGt(a, b) == IsNumber(a) /\ IsNumber(b) /\ a > b

JsGe(a, b) == IsNumber(a) /\ IsNumber(b) /\ a >= b

JsLt(a, b) == IsNumber(a) /\ IsNumber(b) /\ a < b

\* nextCusp = i === 12 ? cusps[1] : cusps[i + 1]
NextCusp(i, c) == IF i = 12 THEN c[1] ELSE c[i + 1]

\* A faulty variant of HouseMatches: a wrapping house asks for both halves
\* of its test at once.
HouseMatchesWrapNeedsBoth(i, normalizedLong, c) ==
    LET currentCusp == c[i]
        nextCusp    == NextCusp(i, c)
    IN  IF JsGt(nextCusp, currentCusp)
        THEN JsGe(normalizedLong, currentCusp) /\ JsLt(normalizedLong, nextCusp)
        ELSE JsGe(normalizedLong, currentCusp) /\ JsLt(normalizedLong, nextCusp)

\* A faulty variant of HouseMatches: a house whose two cusps are equal is
\* taken as an empty ascending house (nextCusp >= currentCusp).
HouseMatchesEqualIsEmpty(i, normalizedLong, c) ==
    LET currentCusp == c[i]
        nextCusp    == NextCusp(i, c)
    IN  IF JsGe(nextCusp, currentCusp)
        THEN JsGe(normalizedLong, currentCusp) /\ JsLt(normalizedLong, nextCusp)
        ELSE JsGe(normalizedLong, currentCusp) \/ JsLt(normalizedLong, nextCusp)

\* A faulty variant of HouseMatches: the lower end of a house is exclusive.
HouseMatchesOpenCusp(i, normalizedLong, c) ==
    LET currentCusp == c[i]
        nextCusp    == NextCusp(i, c)
    IN  IF JsGt(nextCusp, currentCusp)
        THEN JsGt(normalizedLong, currentCusp) /\ JsLt(normalizedLong, nextCusp)
        ELSE JsGt(normalizedLong, currentCusp) \/ JsLt(normalizedLong, nextCusp)

\* The membership test of house i (the body of the loop).
HouseMatches(i, normalizedLong, c) ==
    LET currentCusp == c[i]
        nextCusp    == NextCusp(i, c)
    IN  IF JsGt(nextCusp, currentCusp)
        THEN JsGe(normalizedLong, currentCusp) /\ JsLt(normalizedLong, nextCusp)
        ELSE JsGe(normalizedLong, currentCusp) \/ JsLt(normalizedLong, nextCusp)

\* A faulty variant of HouseLoop: the houses are tried from 12 down to 1.
RECURSIVE HouseLoopDescending(_, _, _)
HouseLoopDescending(i, normalizedLong, c) ==
    IF i > 12 THEN 1
    ELSE IF HouseMatches(13 - i, normalizedLong, c) THEN 13 - i
    ELSE HouseLoopDescending(i + 1, normalizedLong, c)

\* A faulty variant of HouseLoop: after the loop the loop index is returned.
RECURSIVE HouseLoopReturnsIndex(_, _, _)
HouseLoopReturnsIndex(i, normalizedLong, c) ==
    IF i > 12 THEN i
    ELSE IF HouseMatches(i, normalizedLong, c) THEN i
    ELSE HouseLoopReturnsIndex(i + 1, normalizedLong, c)

\* for (let i = 1; i <= 12; i++) { ... return i; }  return 1;
RECURSIVE HouseLoop(_, _, _)
HouseLoop(i, normalizedLong, c) ==
    IF i > 12 THEN 1
    ELSE IF HouseMatches(i, normalizedLong, c) THEN i
    ELSE HouseLoop(i + 1, normalizedLong, c)

calculateHousePositionForPlanet(lon, c) == HouseLoop(1, Normalize360(lon), c)

----------------------------------------------------------------------------
(* constants/aspects.ts *)

\* A faulty variant of ASPECT_TYPES: the Semi-Square is given an orb of 10,
\* which takes its window up to 55, into the Sextile's.
ASPECT_TYPES_WideSemiSquare ==
    << [name |-> "Conjunction",    key |-> "conjunction",    angle |-> Deg(0),   orb |-> Deg(10), level |-> "major"],
       [name |-> "Sextile",        key |-> "sextile",        angle |-> Deg(60),  orb |-> Deg(6),  level |-> "major"],
       [name |-> "Square",         key |-> "square",         angle |-> Deg(90),  orb |-> Deg(8),  level |-> "major"],
       [name |-> "Trine",          key |-> "trine",          angle |-> Deg(120), orb |-> Deg(8),  level |-> "major"],
       [name |-> "Opposition",     key |-> "opposition",     angle |-> Deg(180), orb |-> Deg(10), level |-> "major"],
       [name |-> "Semi-Sextile",   key |-> "semisextile",    angle |-> Deg(30),  orb |-> Deg(3),  level |-> "minor"],
       [name |-> "Semi-Square",    key |-> "semisquare",     angle |-> Deg(45),  orb |-> Deg(10), level |-> "minor"],
       [name |-> "Sesquiquadrate", key |-> "sesquiquadrate", angle |-> Deg(135), orb |-> Deg(3),  level |-> "minor"],
       [name |-> "Quincunx",       key |-> "quincunx",       angle |-> Deg(150), orb |-> Deg(3),  level |-> "minor"] >>

\* A faulty variant of ASPECT_TYPES: the Quincunx is given the orb of a major
\* aspect.
ASPECT_TYPES_WideQuincunx ==
    << [name |-> "Conjunction",    key |-> "conjunction",    angle |-> Deg(0),   orb |-> Deg(10), level |-> "major"],
       [name |-> "Sextile",        key |-> "sextile",        angle |-> Deg(60),  orb |-> Deg(6),  level |-> "major"],
       [name |-> "Square",         key |-> "square",         angle |-> Deg(90),  orb |-> Deg(8),  level |-> "major"],
       [name |-> "Trine",          key |-> "trine",          angle |-> Deg(120), orb |-> Deg(8),  level |-> "major"],
       [name |-> "Opposition",     key |-> "opposition",     angle |-> Deg(180), orb |-> Deg(10), level |-> "major"],
       [name |-> "Semi-Sextile",   key |-> "semisextile",    angle |-> Deg(30),  orb |-> Deg(3),  level |-> "minor"],
       [name |-> "Semi-Square",    key |-> "semisquare",     angle |-> Deg(45),  orb |-> Deg(3),  level |-> "minor"],
       [name |-> "Sesquiquadrate", key |-> "sesquiquadrate", angle |-> Deg(135), orb |-> Deg(3),  level |-> "minor"],
       [name |-> "Quincunx",       key |-> "quincunx",       angle |-> Deg(150), orb |-> Deg(8),  level |-> "minor"] >>

ASPECT_TYPES ==
    << [name |-> "Conjunction",    key |-> "conjunction",    angle |-> Deg(0),   orb |-> Deg(10), level |-> "major"],
       [name |-> "Sextile",        key |-> "sextile",        angle |-> Deg(60),  orb |-> Deg(6),  level |-> "major"],
       [name |-> "Square",         key |-> "square",         angle |-> Deg(90),  orb |-> Deg(8),  level |-> "major"],
       [name |-> "Trine",          key |-> "trine",          angle |-> Deg(120), orb |-> Deg(8),  level |-> "major"],
       [name |-> "Opposition",     key |-> "opposition",     angle |-> Deg(180), orb |-> Deg(10), level |-> "major"],
       [name |-> "Semi-Sextile",   key |-> "semisextile",    angle |-> Deg(30),  orb |-> Deg(3),  level |-> "minor"],
       [name |-> "Semi-Square",    key |-> "semisquare",     angle |-> Deg(45),  orb |-> Deg(3),  level |-> "minor"],
       [name |-> "Sesquiquadrate", key |-> "sesquiquadrate", angle |-> Deg(135), orb |-> Deg(3),  level |-> "minor"],
       [name |-> "Quincunx",       key |-> "quincunx",       angle |-> Deg(150), orb |-> Deg(3),  level |-> "minor"] >>

----------------------------------------------------------------------------
(* services/aspect-calculator.ts *)

\* A faulty variant of AngularDistance: the difference is not folded at 180.
AngularDistanceUnfolded(planet1, planet2) ==
    Abs(planet1.longitude - planet2.longitude)

\* let diff = Math.abs(a - b); if (diff > 180) diff = 360 - diff;
AngularDistance(planet1, planet2) ==
    LET diff == Abs(planet1.longitude - planet2.longitude)
    IN  IF diff > Deg(180) THEN FullCircle - diff ELSE diff

\* A faulty variant of OrbWithin: the limit of the orb is exclusive.
OrbWithinExclusive(orb, aspectType) == orb < aspectType.orb

\* if (orb <= aspectType.orb)
OrbWithin(orb, aspectType) == orb <= aspectType.orb

\* A faulty variant of DetectedAspect: the limit of the definition is written
\* to both orb fields.
DetectedAspectLimitAsOrb(planet1, planet2, aspectType, orb) ==
    [point1      |-> planet1.name,
     point2      |-> planet2.name,
     aspect      |-> aspectType.name,
     aspectLevel |-> aspectType.level,
     orb         |-> aspectType.orb,
     orbUsed     |-> aspectType.orb]

DetectedAspect(planet1, planet2, aspectType, orb) ==
    [point1      |-> planet1.name,
     point2      |-> planet2.name,
     aspect      |-> aspectType.name,
     aspectLevel |-> aspectType.level,
     orb         |-> toFixed(orb, 2),
     orbUsed     |-> aspectType.orb]

\* A faulty variant of AspectTypeLoop: the loop over the table ends at the first
\* definition that matches.
RECURSIVE AspectTypeLoopBreak(_, _, _, _)
AspectTypeLoopBreak(k, planet1, planet2, diff) ==
    IF k > Len(aspectTypes) THEN << >>
    ELSE LET aspectType == aspectTypes[k]
             orb        == Abs(diff - aspectType.angle)
         IN  IF OrbWithin(orb, aspectType)
             THEN << DetectedAspect(planet1, planet2, aspectType, orb) >>
             ELSE AspectTypeLoopBreak(k + 1, planet1, planet2, diff)

\* for (const aspectType of ASPECT_TYPES) { ... aspects.push(...) }
RECURSIVE AspectTypeLoop(_, _, _, _)
AspectTypeLoop(k, planet1, planet2, diff) ==
    IF k > Len(aspectTypes) THEN << >>
    ELSE LET aspectType == aspectTypes[k]
             orb        == Abs(diff - aspectType.angle)
         IN  (IF OrbWithin(orb, aspectType)
              THEN << DetectedAspect(planet1, planet2, aspectType, orb) >>
              ELSE << >>)
             \o AspectTypeLoop(k + 1, planet1, planet2, diff)

\* A faulty variant of InnerStart: the inner loop starts at the outer index.
InnerStartAtOuter(i) == i

\* for (let j = i + 1; ...)
InnerStart(i) == i + 1

\* The inner loop over j, from j to the end of the list (1-based here).
RECURSIVE InnerLoop(_, _, _)
InnerLoop(i, j, ps) ==
    IF j > Len(ps) THEN << >>
    ELSE AspectTypeLoop(1, ps[i], ps[j], AngularDistance(ps[i], ps[j]))
         \o InnerLoop(i, j + 1, ps)

\* The outer loop over i.
RECURSIVE OuterLoop(_, _)
OuterLoop(i, ps) ==
    IF i > Len(ps) THEN << >>
    ELSE InnerLoop(i, InnerStart(i), ps) \o OuterLoop(i + 1, ps)

calculateAspects(ps) == OuterLoop(1, ps)

----------------------------------------------------------------------------
(* services/chart-calculator.ts *)

\* calculateNatalChart: the record built for one body from the position
\* the ephemeris returns for it.
NatalPlanet(body, position, c) ==
    LET zodiacInfo == degreeToZodiacSign(position.longitude)
    IN  [name          |-> body.name,
         key           |-> body.key,
         longitude     |-> position.longitude,
         latitude      |-> position.latitude,
         speed         |-> position.longitudeSpeed,
         isRetrograde  |-> position.longitudeSpeed < 0,
         zodiacSign    |-> zodiacInfo.sign,
         zodiacSignKey |-> zodiacInfo.signKey,
         degreeInSign  |-> zodiacInfo.degreeInSign,
         house         |-> calculateHousePositionForPlanet(position.longitude, c)]

FormatPlanet(planet) ==
    [name        |-> planet.name,
     sign        |-> planet.zodiacSign,
     degree      |-> formatZodiacDegree(planet.degreeInSign),
     longitude   |-> toFixed(planet.longitude, 6),
     house       |-> planet.house,
     isRetrograde |-> planet.isRetrograde]

\* cusps.slice(1, 13).map((cuspDegree, index) => ...)
FormatHouse(cuspDegree, index) ==
    LET zodiacInfo == degreeToZodiacSign(cuspDegree)
    IN  [number     |-> index + 1,
         sign       |-> zodiacInfo.sign,
         degree     |-> formatZodiacDegree(zodiacInfo.degreeInSign),
         cuspDegree |-> toFixed(cuspDegree, 6)]

\* The sign, the formatted degree and the rounded longitude of a chart angle.
ChartAngle(angleDegree) ==
    LET info == degreeToZodiacSign(angleDegree)
    IN  [sign      |-> info.sign,
         degree    |-> formatZodiacDegree(info.degreeInSign),
         longitude |-> toFixed(angleDegree, 6)]

\* A faulty variant of OppositeDegree: the sum is not reduced.
OppositeDegreeUnreduced(angleDegree) == angleDegree + Deg(180)

\* (angle + 180) % 360
OppositeDegree(angleDegree) == JsRem(angleDegree + Deg(180), FullCircle)

\* A faulty variant of FindSun: the bodies are searched by display name
\* against the key.
RECURSIVE FindSunByName(_, _)
FindSunByName(ps, i) ==
    IF i > Len(ps) THEN 0
    ELSE IF ps[i].name = "sun" THEN i
    ELSE FindSunByName(ps, i + 1)

\* chartData.planets.find((p) => p.key === "sun")
RECURSIVE FindSun(_, _)
FindSun(ps, i) ==
    IF i > Len(ps) THEN 0
    ELSE IF ps[i].key = "sun" THEN i
    ELSE FindSun(ps, i + 1)

\* A faulty variant of formatNatalChartData: the houses are taken from
\* cusps.slice(0, 12), the unused index 0 included.
formatNatalChartDataSliceFromZero(data) ==
    LET sunPlanet == FindSun(data.planets, 1)
    IN  [planets     |-> [i \in 1..Len(data.planets) |-> FormatPlanet(data.planets[i])],
         houses      |-> [n \in 1..12 |-> FormatHouse(data.houses.cusps[n - 1], n - 1)],
         aspects     |-> calculateAspects(data.planets),
         chartAngles |->
             [ascendant  |-> ChartAngle(data.houses.ascendant),
              descendant |-> ChartAngle(OppositeDegree(data.houses.ascendant)),
              midheaven  |-> ChartAngle(data.houses.mc),
              imumCoeli  |-> ChartAngle(OppositeDegree(data.houses.mc))],
         sunSign     |-> IF sunPlanet # 0 THEN data.planets[sunPlanet].zodiacSign
                         ELSE "Unknown"]

\* A faulty variant of formatNatalChartData: the aspects are taken from the
\* list the last call of calculateAspects left behind, when there is one.
formatNatalChartDataCachedAspects(data) ==
    LET sunPlanet == FindSun(data.planets, 1)
    IN  [planets     |-> [i \in 1..Len(data.planets) |-> FormatPlanet(data.planets[i])],
         houses      |-> [n \in 1..12 |-> FormatHouse(data.houses.cusps[n], n - 1)],
         aspects     |-> IF aspects # << >> THEN aspects ELSE calculateAspects(data.planets),
         chartAngles |->
             [ascendant  |-> ChartAngle(data.houses.ascendant),
              descendant |-> ChartAngle(OppositeDegree(data.houses.ascendant)),
              midheaven  |-> ChartAngle(data.houses.mc),
              imumCoeli  |-> ChartAngle(OppositeDegree(data.houses.mc))],
         sunSign     |-> IF sunPlanet # 0 THEN data.planets[sunPlanet].zodiacSign
                         ELSE "Unknown"]

formatNatalChartData(data) ==
    LET sunPlanet == FindSun(data.planets, 1)
    IN  [planets     |-> [i \in 1..Len(data.planets) |-> FormatPlanet(data.planets[i])],
         houses      |-> [n \in 1..12 |-> FormatHouse(data.houses.cusps[n], n - 1)],
         aspects     |-> calculateAspects(data.planets),
         chartAngles |->
             [ascendant  |-> ChartAngle(data.houses.ascendant),
              descendant |-> ChartAngle(OppositeDegree(data.houses.ascendant)),
              midheaven  |-> ChartAngle(data.houses.mc),
              imumCoeli  |-> ChartAngle(OppositeDegree(data.houses.mc))],
         sunSign     |-> IF sunPlanet # 0 THEN data.planets[sunPlanet].zodiacSign
                         ELSE "Unknown"]

----------------------------------------------------------------------------
(* Inputs *)

MaxTurns == 1

Fractions == {0, 1, UnitsPerDegree \div 2, UnitsPerDegree - 1}

DegreeWholes == {-360, -331, -30, -1, 0, 1, 15, 29, 30, 45, 179, 180,
                 329, 330, 359, 360, 390, 700}

DegreeInputs == {Deg(d) + f : d \in DegreeWholes, f \in Fractions}

Turns == {k \in -MaxTurns..MaxTurns : k # 0}

\* x + k turns stays inside the range of TLC's 32-bit integers.
Representable(x, k) ==
    IF k >= 0 THEN x <= LonLimit - k * FullCircle
              ELSE x >= (-k) * FullCircle - LonLimit

NoZodiac == [sign |-> "none", signKey |-> "none", degreeInSign |-> 0]

\* Cusp sequences.  A well-formed one starts anywhere on the circle and
\* advances by twelve positive gaps that add up to one turn.
HalfDeg(n) == n * (UnitsPerDegree \div 2)

GapPatterns ==
    { [i \in 1..12 |-> HalfDeg(60)],
      << HalfDeg(45), HalfDeg(53) + 1, HalfDeg(70) - 1, HalfDeg(82), HalfDeg(61), HalfDeg(49),
         HalfDeg(45), HalfDeg(53) + 1, HalfDeg(70) - 1, HalfDeg(82), HalfDeg(61), HalfDeg(49) >>,
      << 1, HalfDeg(119), HalfDeg(2), HalfDeg(118), HalfDeg(60) - 1, HalfDeg(61),
         1, HalfDeg(119), HalfDeg(2), HalfDeg(118), HalfDeg(60) - 1, HalfDeg(61) >> }

CuspStarts == {0, 1, Deg(15), Deg(30) - 1, HalfDeg(201), Deg(330), Deg(360) - 1}

RECURSIVE GapSum(_, _)
GapSum(gaps, n) == IF n = 0 THEN 0 ELSE gaps[n] + GapSum(gaps, n - 1)

CuspsFrom(start, gaps) ==
    [i \in 0..12 |-> IF i = 0 THEN 0 ELSE (start + GapSum(gaps, i - 1)) % FullCircle]

WellFormedCuspInputs == {CuspsFrom(s, g) : s \in CuspStarts, g \in GapPatterns}

\* Malformed sequences: one cusp of a well-formed sequence overwritten (by no
\* number, by 0, by 200, or by a copy of the following cusp), an array of
\* NaN, and an empty array; sequences that go twice round the circle, kept
\* in [0,360) or left to run past 360; and cusps below 0 or above 360.
MalformedBases == {CuspsFrom(s, g) : s \in {0, HalfDeg(201)}, g \in GapPatterns}

MalformedCuspInputs ==
    { [c EXCEPT ![i] = v] : c \in MalformedBases, i \in 1..12,
                             v \in {NaN, 0, Deg(200), Deg(-10), Deg(400)} }
    \cup { CuspsFrom(st, [i \in 1..12 |-> Deg(60)]) : st \in {0, HalfDeg(201)} }
    \cup { [i \in 0..12 |-> IF i = 0 THEN 0 ELSE st + Deg(60) * (i - 1)] : st \in {Deg(-90), Deg(15)} }
    \cup { [c EXCEPT ![i] = NextCusp(i, c)] : c \in MalformedBases, i \in 1..12 }
    \cup { [i \in 0..12 |-> NaN] }

CuspInputs == WellFormedCuspInputs \cup MalformedCuspInputs

HouseLonWholes == {-30, 0, 15, 30, 100, 180, 200, 329, 355, 360, 375}

HouseLonInputs(c) ==
    {Deg(d) + f : d \in HouseLonWholes, f \in {0, 1, UnitsPerDegree - 1}}
    \cup {c[i] : i \in {j \in 1..12 : IsNumber(c[j])}}
    \cup {c[i] - 1 : i \in {j \in 1..12 : IsNumber(c[j])}}

----------------------------------------------------------------------------
(* Zodiac Mapper driver *)

NoFormat == [deg |-> -1, min |-> -1, sec |-> -1]

FormatIdle ==
    /\ signDegree = 0
    /\ formatted = NoFormat

ZodiacIdle ==
    /\ degree = 0
    /\ zodiac = NoZodiac
    /\ prevZodiac = NoZodiac
    /\ FormatIdle

\* Bodies are named as in CELESTIAL_BODIES, in catalog order.
PlanetsAt(lons) ==
    [i \in 1..Len(lons) |-> [name |-> CELESTIAL_BODIES[i].name, longitude |-> lons[i]]]

MaxPlanets == 3

\* Separations around every orb window of the table: its centre, both limits
\* and one unit beyond each; the separations of the unit tests; and
\* separations with more than two decimals; 50 lies in no window of the table
\* and in two windows of the widened one.
WindowSeparations ==
    UNION { { ASPECT_TYPES[k].angle + s * (ASPECT_TYPES[k].orb + e) : s \in {-1, 0, 1}, e \in {0, 1} }
            : k \in DOMAIN ASPECT_TYPES }

Separations ==
    { d \in WindowSeparations \cup
             { Deg(8), Deg(15), Deg(50), Deg(95), Deg(20) + 1,
               Deg(8) + 246913, Deg(60) + 9999, Deg(60) + 10000, Deg(60) + 10001,
               Deg(118) - 29999, Deg(9) + UnitsPerDegree - 1 }
        : d >= 0 /\ d <= Deg(180) }

PairFirsts == {0, Deg(10) + 1, Deg(200), Deg(360) - 1}

PairInputs ==
    { PlanetsAt(<< a, (a + s * d) % FullCircle >>) : a \in PairFirsts, d \in Separations, s \in {-1, 1} }

TrineStarts == {0, 1, Deg(35) + 1000001, Deg(120) - 1, Deg(120), Deg(200), Deg(240), Deg(300), Deg(360) - 1}

Orders3 == { << 1, 2, 3 >>, << 1, 3, 2 >>, << 2, 1, 3 >>, << 2, 3, 1 >>, << 3, 1, 2 >>, << 3, 2, 1 >> }

GrandTrineInputs ==
    { PlanetsAt([i \in 1..3 |-> (a + (o[i] - 1) * Deg(120)) % FullCircle]) : a \in TrineStarts, o \in Orders3 }

CoarseLons == {0, Deg(8), Deg(60), Deg(95), Deg(180) + 1, Deg(240), Deg(355)}

TupleInputs ==
    UNION { { PlanetsAt(lons) : lons \in [1..n -> CoarseLons] } : n \in 0..MaxPlanets }

PlanetInputs == PairInputs \cup GrandTrineInputs \cup TupleInputs

\* The differences the pair loop forms stay inside the range of TLC's 32-bit
\* integers.
DiffRepresentable(ps) ==
    \A i, j \in DOMAIN ps :
        IF (ps[i].longitude >= 0) = (ps[j].longitude >= 0)
        THEN TRUE
        ELSE Abs(ps[i].longitude) <= LonLimit - Abs(ps[j].longitude)

\* Snapshots handed to formatNatalChartData: the bodies of the catalog (all
\* of them, or the catalog without the Sun), each at a position, over a
\* well-formed cusp sequence, with an ascendant and a midheaven.
PositionAt(lon, speed) == [longitude |-> lon, latitude |-> 0, longitudeSpeed |-> speed]

BodyLists == {CELESTIAL_BODIES, SubSeq(CELESTIAL_BODIES, 2, 4)}

Placements == { << Deg(15) + 1000000, 27 >>, << Deg(350) + 246913, 120 >> }

ChartPlanets(bodies, placement, c) ==
    [i \in 1..Len(bodies) |->
        NatalPlanet(bodies[i],
                    PositionAt((placement[1] + Deg(((i - 1) * placement[2]) % 360)) % FullCircle,
                               IF i % 3 = 0 THEN -1 ELSE 1),
                    c)]

ChartCusps == {CuspsFrom(HalfDeg(201), g) : g \in GapPatterns}

AngleWholes == {0, 29, 95, 179, 180, 270, 359}

\* The ephemeris returns the ascendant and the midheaven within [0,360).
AngleInputs ==
    {Deg(d) + f : d \in AngleWholes, f \in {0, 1, UnitsPerDegree \div 2 + 1, UnitsPerDegree - 1}}

ChartInputs ==
    { [julianDay   |-> 2451545,
       houses      |-> [cusps |-> c, ascendant |-> a, mc |-> m],
       planets     |-> ChartPlanets(b, pl, c),
       houseSystem |-> "P"]
      : c \in ChartCusps, a \in AngleInputs, m \in AngleInputs,
        b \in BodyLists, pl \in Placements }

NoReport == [sunSign |-> "none"]

HandlerIdle == requests = << >> /\ toolHandlers = << >>

ChartIdle ==
    /\ chartData = [julianDay |-> 0]
    /\ report = NoReport
    /\ prevReport = NoReport

AspectIdle ==
    /\ planets = << >>
    /\ aspectTypes = ASPECT_TYPES
    /\ aspects = << >>
    /\ prevAspects = << >>

HouseIdle ==
    /\ longitude = 0
    /\ cusps = [i \in 0..12 |-> 0]
    /\ house = 0

InitZodiac ==
    /\ pc = "start"
    /\ degree \in DegreeInputs
    /\ zodiac = NoZodiac
    /\ prevZodiac = NoZodiac
    /\ FormatIdle
    /\ HouseIdle
    /\ AspectIdle
    /\ ChartIdle
    /\ HandlerIdle

DegreeToZodiacSign ==
    /\ pc \in {"start", "turned"}
    /\ zodiac' = degreeToZodiacSign(degree)
    /\ pc' = IF pc = "start" THEN "done" ELSE "redone"
    /\ UNCHANGED <<degree, prevZodiac, signDegree, formatted>>
    /\ UNCHANGED houseVars
    /\ UNCHANGED aspectVars
    /\ UNCHANGED chartVars
    /\ UNCHANGED handlerVars

AddTurnsToDegree ==
    /\ pc = "done"
    /\ \E k \in Turns :
          /\ Representable(degree, k)
          /\ degree' = degree + k * FullCircle
    /\ prevZodiac' = zodiac
    /\ zodiac' = NoZodiac
    /\ pc' = "turned"
    /\ UNCHANGED <<signDegree, formatted>>
    /\ UNCHANGED houseVars
    /\ UNCHANGED aspectVars
    /\ UNCHANGED chartVars
    /\ UNCHANGED handlerVars

NextZodiac == DegreeToZodiacSign \/ AddTurnsToDegree

vars == <<pc, degree, zodiac, prevZodiac, signDegree, formatted, longitude, cusps, house,
          planets, aspectTypes, aspects, prevAspects, chartData, report, prevReport, requests,
          toolHandlers>>

SpecZodiac == InitZodiac /\ [][NextZodiac]_vars

----------------------------------------------------------------------------
(* Degree Formatter driver *)

\* Fractions of a degree around the boundaries of a second (1/3600 degree
\* is 555.55.. units) and of a minute (33333.33.. units), the halves, and
\* .999 of the unit test.
SecondFractions ==
    {0, 1, 555, 556, 1111, 1112, 33333, 33334, 33889,
     UnitsPerDegree \div 2 - 1, UnitsPerDegree \div 2, 999 * (UnitsPerDegree \div 1000),
     UnitsPerDegree - 556, UnitsPerDegree - 555, UnitsPerDegree - 1}

DegreeInSignInputs == {Deg(d) + f : d \in 0..29, f \in SecondFractions}

InitFormat ==
    /\ pc = "start"
    /\ signDegree \in DegreeInSignInputs
    /\ formatted = NoFormat
    /\ degree = 0
    /\ zodiac = NoZodiac
    /\ prevZodiac = NoZodiac
    /\ HouseIdle
    /\ AspectIdle
    /\ ChartIdle
    /\ HandlerIdle

FormatZodiacDegree ==
    /\ pc = "start"
    /\ formatted' = formatZodiacDegree(signDegree)
    /\ pc' = "done"
    /\ UNCHANGED <<degree, zodiac, prevZodiac, signDegree>>
    /\ UNCHANGED houseVars
    /\ UNCHANGED aspectVars
    /\ UNCHANGED chartVars
    /\ UNCHANGED handlerVars

NextFormat == FormatZodiacDegree

SpecFormat == InitFormat /\ [][NextFormat]_vars

----------------------------------------------------------------------------
(* House Locator driver *)

InitHouse ==
    /\ pc = "start"
    /\ cusps \in CuspInputs
    /\ longitude \in HouseLonInputs(cusps)
    /\ house = 0
    /\ ZodiacIdle
    /\ AspectIdle
    /\ ChartIdle
    /\ HandlerIdle

CalculateHousePositionForPlanet ==
    /\ pc = "start"
    /\ house' = calculateHousePositionForPlanet(longitude, cusps)
    /\ pc' = "done"
    /\ UNCHANGED <<longitude, cusps>>
    /\ UNCHANGED zodiacVars
    /\ UNCHANGED aspectVars
    /\ UNCHANGED chartVars
    /\ UNCHANGED handlerVars

NextHouse == CalculateHousePositionForPlanet

SpecHouse == InitHouse /\ [][NextHouse]_vars

----------------------------------------------------------------------------
(* Aspect Detector driver *)

InitAspects ==
    /\ pc = "start"
    /\ planets \in PlanetInputs
    /\ aspectTypes = ASPECT_TYPES
    /\ aspects = << >>
    /\ prevAspects = << >>
    /\ ZodiacIdle
    /\ HouseIdle
    /\ ChartIdle
    /\ HandlerIdle

CalculateAspects ==
    /\ pc \in {"start", "turned"}
    /\ aspects' = calculateAspects(planets)
    /\ pc' = IF pc = "start" THEN "done" ELSE "redone"
    /\ UNCHANGED <<planets, aspectTypes, prevAspects>>
    /\ UNCHANGED zodiacVars
    /\ UNCHANGED houseVars
    /\ UNCHANGED chartVars
    /\ UNCHANGED handlerVars

\* The caller passes the same bodies again, one of them a whole number of
\* turns away from where it was.
AddTurnsToBody ==
    /\ pc = "done"
    /\ \E i \in DOMAIN planets, k \in Turns :
          /\ Representable(planets[i].longitude, k)
          /\ LET moved == [planets EXCEPT ![i].longitude = @ + k * FullCircle]
             IN  /\ DiffRepresentable(moved)
                 /\ planets' = moved
    /\ prevAspects' = aspects
    /\ aspects' = << >>
    /\ pc' = "turned"
    /\ UNCHANGED aspectTypes
    /\ UNCHANGED zodiacVars
    /\ UNCHANGED houseVars
    /\ UNCHANGED chartVars
    /\ UNCHANGED handlerVars

NextAspects == CalculateAspects \/ AddTurnsToBody

SpecAspects == InitAspects /\ [][NextAspects]_vars

\* The README calls the orbs configurable and shows an orbUsed that is not
\* in today's table; the loop of calculateAspects reads whatever table the
\* module holds.  Here the table is an input: today's, or today's with
\* every orb widened by 5 degrees, which makes neighbouring windows overlap.
WidenedBy(table, w) == [k \in DOMAIN table |-> [table[k] EXCEPT !.orb = @ + w]]

AspectTables == {ASPECT_TYPES, WidenedBy(ASPECT_TYPES, Deg(5))}

InitAspectTable ==
    /\ pc = "start"
    /\ planets \in PairInputs \cup GrandTrineInputs
    /\ aspectTypes \in AspectTables
    /\ aspects = << >>
    /\ prevAspects = << >>
    /\ ZodiacIdle
    /\ HouseIdle
    /\ ChartIdle
    /\ HandlerIdle

NextAspectTable == CalculateAspects

SpecAspectTable == InitAspectTable /\ [][NextAspectTable]_vars

----------------------------------------------------------------------------
(* Chart Assembler driver *)

InitChart ==
    /\ pc = "start"
    /\ chartData \in ChartInputs
    /\ report = NoReport
    /\ prevReport = NoReport
    /\ ZodiacIdle
    /\ HouseIdle
    /\ AspectIdle
    /\ HandlerIdle

\* A faulty variant of FormatNatalChartData: the houses are cut out of the
\* cusps array with splice(1, 12), which removes them from the argument.
FormatNatalChartDataSplicesCusps ==
    /\ pc = "start"
    /\ report' = formatNatalChartData(chartData)
    /\ pc' = "done"
    /\ chartData' = [chartData EXCEPT !.houses.cusps = [i \in {0} |-> @[i]]]
    /\ UNCHANGED prevReport
    /\ UNCHANGED zodiacVars
    /\ UNCHANGED houseVars
    /\ UNCHANGED aspectVars
    /\ UNCHANGED handlerVars

FormatNatalChartData ==
    /\ pc = "start"
    /\ report' = formatNatalChartData(chartData)
    /\ pc' = "done"
    /\ UNCHANGED <<chartData, prevReport>>
    /\ UNCHANGED zodiacVars
    /\ UNCHANGED houseVars
    /\ UNCHANGED aspectVars
    /\ UNCHANGED handlerVars

NextChart == FormatNatalChartData

SpecChart == InitChart /\ [][NextChart]_vars

----------------------------------------------------------------------------
(* A session: formatNatalChartData called twice on one snapshot, the other
   functions of the module called in between on arguments of their own *)

SessionCharts ==
    { d \in ChartInputs :
        /\ d.houses.ascendant \in {Deg(95), Deg(359) + UnitsPerDegree - 1}
        /\ d.houses.mc \in {0, Deg(270) + 1} }

SessionPlanets ==
    { PlanetsAt(<< 0, Deg(60) >>), PlanetsAt(<< Deg(200), Deg(20), Deg(355) >>),
      PlanetsAt(<< Deg(8) >>) }

SessionDegrees == {Deg(-30), Deg(45), Deg(700) + 1}

InitSession ==
    /\ pc = "start"
    /\ chartData \in SessionCharts
    /\ report = NoReport
    /\ prevReport = NoReport
    /\ ZodiacIdle
    /\ HouseIdle
    /\ AspectIdle
    /\ HandlerIdle

\* Another caller builds a list of bodies of its own ...
SessionPassBodies ==
    /\ pc = "done"
    /\ planets' \in SessionPlanets
    /\ pc' = "bodies"
    /\ UNCHANGED <<aspectTypes, aspects, prevAspects>>
    /\ UNCHANGED zodiacVars
    /\ UNCHANGED houseVars
    /\ UNCHANGED chartVars
    /\ UNCHANGED handlerVars

\* ... and runs calculateAspects on it.
SessionCalculateAspects ==
    /\ pc = "bodies"
    /\ aspects' = calculateAspects(planets)
    /\ pc' = "done"
    /\ UNCHANGED <<planets, aspectTypes, prevAspects>>
    /\ UNCHANGED zodiacVars
    /\ UNCHANGED houseVars
    /\ UNCHANGED chartVars
    /\ UNCHANGED handlerVars

\* Another caller picks a longitude and takes the cusps of the snapshot ...
SessionPassDegree ==
    /\ pc = "done"
    /\ \E x \in SessionDegrees :
          /\ degree' = x
          /\ longitude' = x
    /\ cusps' = chartData.houses.cusps
    /\ pc' = "degree"
    /\ UNCHANGED <<zodiac, prevZodiac, signDegree, formatted, house>>
    /\ UNCHANGED aspectVars
    /\ UNCHANGED chartVars
    /\ UNCHANGED handlerVars

\* ... and runs degreeToZodiacSign and calculateHousePositionForPlanet.
SessionPlaceDegree ==
    /\ pc = "degree"
    /\ zodiac' = degreeToZodiacSign(degree)
    /\ house' = calculateHousePositionForPlanet(longitude, cusps)
    /\ pc' = "done"
    /\ UNCHANGED <<degree, prevZodiac, signDegree, formatted, longitude, cusps>>
    /\ UNCHANGED aspectVars
    /\ UNCHANGED chartVars
    /\ UNCHANGED handlerVars

\* The second call, on the snapshot of the first.
FormatNatalChartDataAgain ==
    /\ pc = "done"
    /\ prevReport' = report
    /\ report' = formatNatalChartData(chartData)
    /\ pc' = "redone"
    /\ UNCHANGED chartData
    /\ UNCHANGED zodiacVars
    /\ UNCHANGED houseVars
    /\ UNCHANGED aspectVars
    /\ UNCHANGED handlerVars

NextSession ==
    \/ FormatNatalChartData
    \/ SessionPassBodies
    \/ SessionCalculateAspects
    \/ SessionPassDegree
    \/ SessionPlaceDegree
    \/ FormatNatalChartDataAgain

SpecSession == InitSession /\ [][NextSession]_vars

----------------------------------------------------------------------------
(* JavaScript values that are not always numbers *)

Undefined == [t |-> "undefined"]

JsString(s) == [t |-> "string", v |-> s]

JsNumber(n) == [t |-> "number", n |-> n]

\* The truth value `x || y` tests.
Truthy(x) ==
    CASE x.t = "undefined" -> FALSE
      [] x.t = "string"    -> x.v # ""
      [] x.t = "number"    -> x.n # 0
      [] OTHER             -> TRUE

\* A thrown value: a ZodError with the paths of its issues, or an Error
\* whose message is written as the chain of its parts, outermost first.
ZodError(issues) == [name |-> "ZodError", issues |-> issues, message |-> << >>]

JsError(message) == [name |-> "Error", issues |-> << >>, message |-> message]

----------------------------------------------------------------------------
(* schemas/input.ts *)

InRangeIssue(value, lo, hi, path) == IF value \in lo..hi THEN << >> ELSE << path >>

DateTimeSchemaIssues(dt, path) ==
    IF dt.t # "object" THEN << path >>
    ELSE InRangeIssue(dt.year, 1800, 2200, path \o ".year")
         \o InRangeIssue(dt.month, 1, 12, path \o ".month")
         \o InRangeIssue(dt.day, 1, 31, path \o ".day")
         \o InRangeIssue(dt.hour, 0, 23, path \o ".hour")
         \o InRangeIssue(dt.minute, 0, 59, path \o ".minute")

CoordinatesSchemaAccepts(loc) ==
    /\ loc.t = "object"
    /\ loc.latitude \in -90..90
    /\ loc.longitude \in -180..180

\* z.union([CoordinatesSchema, z.string().min(1)])
LocationSchemaAccepts(loc) ==
    IF loc.t = "object" THEN CoordinatesSchemaAccepts(loc)
    ELSE IF loc.t = "string" THEN Len(loc.v) >= 1
    ELSE FALSE

\* CalculateNatalChartArgsSchema.parse(args): the validated arguments, the
\* default house system filled in, or a ZodError.
CalculateNatalChartArgsSchemaParse(args) ==
    LET issues ==
            DateTimeSchemaIssues(args.datetime, "datetime")
            \o (IF LocationSchemaAccepts(args.location) THEN << >> ELSE << "location" >>)
            \o (IF args.houseSystem.t \in {"undefined", "string"} THEN << >>
                ELSE << "houseSystem" >>)
    IN  IF issues # << >>
        THEN [ok |-> FALSE, error |-> ZodError(issues)]
        ELSE [ok    |-> TRUE,
              value |-> [datetime    |-> args.datetime,
                         location    |-> args.location,
                         houseSystem |-> IF args.houseSystem.t = "undefined"
                                         THEN "Placidus" ELSE args.houseSystem.v]]

----------------------------------------------------------------------------
(* services/geolocation.ts *)

\* The texts of the model that are written as JSON objects.
JsonCoordinates == "{\"latitude\":41,\"longitude\":29}"

JsonCoordinatesWithAddress == "{\"latitude\":40,\"longitude\":-74,\"formattedAddress\":\"New York\"}"

JsonCoordinatesWithNumberAddress == "{\"latitude\":48,\"longitude\":2,\"formattedAddress\":5}"

JsonCoordinatesOffTheGlobe == "{\"latitude\":500,\"longitude\":2}"

JsonLatitudeAsString == "{\"latitude\":\"48\",\"longitude\":2}"

JsonBroken == "{latitude: 48"

JsonCoordinatesIndented == "  {\"latitude\":-34,\"longitude\":151}"

\* location.trim().startsWith("{"), on the texts of the model.
TrimStartsWithBrace(text) ==
    text \in {JsonCoordinates, JsonCoordinatesWithAddress, JsonCoordinatesWithNumberAddress,
              JsonCoordinatesOffTheGlobe, JsonLatitudeAsString, JsonBroken,
              JsonCoordinatesIndented}

JsonObject(lat, lon, address) ==
    [ok |-> TRUE, value |-> [t |-> "object", latitude |-> lat, longitude |-> lon,
                             formattedAddress |-> address]]

\* JSON.parse(location), on the texts of the model; ok is FALSE for a
\* SyntaxError.
JSONParse(text) ==
    CASE text = JsonCoordinates -> JsonObject(JsNumber(41), JsNumber(29), Undefined)
      [] text = JsonCoordinatesWithAddress ->
             JsonObject(JsNumber(40), JsNumber(-74), JsString("New York"))
      [] text = JsonCoordinatesWithNumberAddress ->
             JsonObject(JsNumber(48), JsNumber(2), JsNumber(5))
      [] text = JsonCoordinatesOffTheGlobe -> JsonObject(JsNumber(500), JsNumber(2), Undefined)
      [] text = JsonLatitudeAsString -> JsonObject(JsString("48"), JsNumber(2), Undefined)
      [] text = JsonCoordinatesIndented -> JsonObject(JsNumber(-34), JsNumber(151), Undefined)
      [] OTHER -> [ok |-> FALSE]

CoordinatesResult(lat, lon, address) ==
    [latitude |-> lat, longitude |-> lon, formattedAddress |-> address]

\* getCoordinates up to the call of the geocoder: the coordinates, when the
\* location holds them, or "geocode" when the function goes on to the
\* geocoder.
getCoordinatesDirect(location) ==
    IF location.t = "object"
    THEN [status |-> "resolved",
          coords |-> CoordinatesResult(location.latitude, location.longitude, Undefined)]
    ELSE IF location.t = "string" /\ TrimStartsWithBrace(location.v)
    THEN LET parsed == JSONParse(location.v)
         IN  IF /\ parsed.ok
                /\ parsed.value.t = "object"
                /\ parsed.value.latitude.t = "number"
                /\ parsed.value.longitude.t = "number"
             THEN [status |-> "resolved",
                   coords |-> CoordinatesResult(parsed.value.latitude.n,
                                                parsed.value.longitude.n,
                                                parsed.value.formattedAddress)]
             ELSE [status |-> "geocode"]
    ELSE [status |-> "geocode"]

GeocoderEntry(lat, lon, address) ==
    [latitude |-> lat, longitude |-> lon, formattedAddress |-> JsString(address)]

\* What the geocoding provider answers to a query: a list of matches, best
\* first, or a rejection (the network is down).
GeocoderAnswer(text) ==
    CASE text = "Paris, France" ->
             [status  |-> "results",
              results |-> << GeocoderEntry(JsNumber(48), JsNumber(2), "Paris, France") >>]
      [] text = "Springfield" ->
             [status  |-> "results",
              results |-> << GeocoderEntry(JsNumber(39), JsNumber(-89), "Springfield, Illinois"),
                             GeocoderEntry(JsNumber(37), JsNumber(-93), "Springfield, Missouri") >>]
      [] text = "Null Island" ->
             [status  |-> "results",
              results |-> << GeocoderEntry(Undefined, JsNumber(0), "Null Island") >>]
      [] text = "Offline" ->
             [status |-> "rejected", message |-> "getaddrinfo ENOTFOUND"]
      [] OTHER -> [status |-> "results", results |-> << >>]

\* A faulty variant of getCoordinatesAfterGeocode: an empty list of matches
\* resolves to the coordinates 0, 0.
getCoordinatesAfterGeocodeDefaultsToOrigin(location, answer) ==
    IF answer.status = "rejected"
    THEN [status |-> "rejected", error |-> JsError(<< "Geocoding failed", answer.message >>)]
    ELSE IF Len(answer.results) > 0
    THEN LET result == answer.results[1]
         IN  IF result.latitude.t = "undefined" \/ result.longitude.t = "undefined"
             THEN [status |-> "rejected",
                   error  |-> JsError(<< "Geocoding failed",
                                         "Geocoding returned incomplete results" >>)]
             ELSE [status |-> "resolved",
                   coords |-> CoordinatesResult(result.latitude.n, result.longitude.n,
                                                result.formattedAddress)]
    ELSE [status |-> "resolved", coords |-> CoordinatesResult(0, 0, Undefined)]

\* getCoordinates from the answer of the geocoder on: the first match, or
\* an Error wrapped as "Geocoding failed for ...".
getCoordinatesAfterGeocode(location, answer) ==
    IF answer.status = "rejected"
    THEN [status |-> "rejected", error |-> JsError(<< "Geocoding failed", answer.message >>)]
    ELSE IF Len(answer.results) > 0
    THEN LET result == answer.results[1]
         IN  IF result.latitude.t = "undefined" \/ result.longitude.t = "undefined"
             THEN [status |-> "rejected",
                   error  |-> JsError(<< "Geocoding failed",
                                         "Geocoding returned incomplete results" >>)]
             ELSE [status |-> "resolved",
                   coords |-> CoordinatesResult(result.latitude.n, result.longitude.n,
                                                result.formattedAddress)]
    ELSE [status |-> "rejected",
          error  |-> JsError(<< "Geocoding failed", "Could not find coordinates" >>)]

----------------------------------------------------------------------------
(* utils/timezone.ts, constants/house-systems.ts, the calculateNatalChart of
   services/chart-calculator.ts.  A time of day is counted in minutes. *)

\* geo-tz: the zones found for a pair of coordinates, none off the globe.
\* A zone is written as its offset from UTC in minutes, 4 minutes of time
\* to a degree of longitude, rounded to the hour.
findTimezone(lat, lon) ==
    IF lat \in -90..90 /\ lon \in -180..180
    THEN << 60 * ((lon + 187) \div 15) - 720 >>
    ELSE << >>

IsLeapYear(y) == (y % 4 = 0 /\ y % 100 # 0) \/ y % 400 = 0

DaysInMonth(y, m) ==
    IF m = 2 THEN (IF IsLeapYear(y) THEN 29 ELSE 28)
    ELSE IF m \in {4, 6, 9, 11} THEN 30
    ELSE 31

\* Luxon: localTime.isValid
LocalTimeIsValid(dt) == dt.day <= DaysInMonth(dt.year, dt.month)

\* A faulty variant of convertLocalTimeToUTC: the local time is converted
\* without asking whether it is valid.
convertLocalTimeToUTCUnchecked(datetime, lat, lon) ==
    LET zones == findTimezone(lat, lon)
    IN  IF zones = << >>
        THEN [ok    |-> FALSE,
              error |-> JsError(<< "Failed to convert local time to UTC",
                                   "Could not determine timezone for coordinates" >>)]
        ELSE [ok      |-> TRUE,
              hourUTC |-> (datetime.hour * 60 + datetime.minute - zones[1]) % (24 * 60)]

\* convertLocalTimeToUTC: utcTime.hour + utcTime.minute / 60, in minutes,
\* or the Error its catch block builds.
convertLocalTimeToUTC(datetime, lat, lon) ==
    LET zones == findTimezone(lat, lon)
    IN  IF zones = << >>
        THEN [ok    |-> FALSE,
              error |-> JsError(<< "Failed to convert local time to UTC",
                                   "Could not determine timezone for coordinates" >>)]
        ELSE IF ~LocalTimeIsValid(datetime)
        THEN [ok    |-> FALSE,
              error |-> JsError(<< "Failed to convert local time to UTC",
                                   "Invalid datetime" >>)]
        ELSE [ok      |-> TRUE,
              hourUTC |-> (datetime.hour * 60 + datetime.minute - zones[1]) % (24 * 60)]

HOUSE_SYSTEM_MAP ==
    [n \in {"Placidus", "Koch", "Equal", "Whole Sign", "Campanus", "Regiomontanus"} |->
        CASE n = "Placidus"   -> "HouseSystem.Placidus"
          [] n = "Koch"       -> "HouseSystem.Koch"
          [] n = "Equal"      -> "HouseSystem.Equal"
          [] n = "Whole Sign" -> "HouseSystem.WholeSign"
          [] n = "Campanus"   -> "HouseSystem.Campanus"
          [] OTHER            -> "HouseSystem.Regiomontanus"]

\* HOUSE_SYSTEM_MAP[houseSystem] || HouseSystem.Placidus
SelectedHouseSystem(houseSystem) ==
    IF houseSystem \in DOMAIN HOUSE_SYSTEM_MAP THEN HOUSE_SYSTEM_MAP[houseSystem]
    ELSE "HouseSystem.Placidus"

\* The ephemeris (@swisseph/node).  julianDay counts minutes from 1800 on a
\* calendar of 31-day months; the sky turns one degree in four minutes, and
\* body i moves about a degree a day from where the catalog order puts it.
julianDay(year, month, day, hourUTC) ==
    (((year - 1800) * 12 + (month - 1)) * 31 + (day - 1)) * (24 * 60) + hourUTC

calculateHouses(jd, lat, lon, houseSystem) ==
    LET start == (Deg((jd \div 4 + lat + lon + 360) % 360) + HalfDeg(1)) % FullCircle
        gaps  == IF houseSystem \in {"HouseSystem.Equal", "HouseSystem.WholeSign"}
                 THEN [i \in 1..12 |-> HalfDeg(60)]
                 ELSE CHOOSE g \in GapPatterns : g[1] = HalfDeg(45)
        c     == CuspsFrom(start, gaps)
    IN  [cusps |-> c, ascendant |-> c[1], mc |-> c[10]]

calculatePosition(jd, bodyId) ==
    PositionAt((Deg((jd \div (24 * 60) + 27 * bodyId) % 360) + 246913 * bodyId) % FullCircle,
               IF bodyId % 3 = 0 THEN -1 ELSE 1)

\* calculateNatalChart: the snapshot, or the Error its catch block builds.
\* ephemerisCalls counts the calls made to the ephemeris on the way.
calculateNatalChart(datetime, latitude, lon, houseSystem) ==
    LET conv == convertLocalTimeToUTC(datetime, latitude, lon)
    IN  IF ~conv.ok
        THEN [status         |-> "rejected",
              error          |-> JsError(<< "Failed to calculate natal chart" >>
                                          \o conv.error.message),
              ephemerisCalls |-> 0]
        ELSE LET jd     == julianDay(datetime.year, datetime.month, datetime.day, conv.hourUTC)
                 system == SelectedHouseSystem(houseSystem)
                 houses == calculateHouses(jd, latitude, lon, system)
             IN  [status         |-> "resolved",
                  value          |->
                      [julianDay   |-> jd,
                       houses      |-> houses,
                       planets     |-> [i \in DOMAIN CELESTIAL_BODIES |->
                                           NatalPlanet(CELESTIAL_BODIES[i],
                                                       calculatePosition(jd, i),
                                                       houses.cusps)],
                       houseSystem |-> system],
                  ephemerisCalls |-> 2 + Len(CELESTIAL_BODIES)]

----------------------------------------------------------------------------
(* schemas/output.ts, tools/natal-chart.ts, server.ts *)

\* String(location)
StringOf(location) == IF location.t = "string" THEN location.v ELSE "[object Object]"

\* { ...chartData, birthData: { ... } }
NatalChartResult(formattedChart, validatedArgs, coords) ==
    [planets     |-> formattedChart.planets,
     houses      |-> formattedChart.houses,
     aspects     |-> formattedChart.aspects,
     chartAngles |-> formattedChart.chartAngles,
     sunSign     |-> formattedChart.sunSign,
     birthData   |->
         [datetime    |-> validatedArgs.datetime,
          location    |-> IF Truthy(coords.formattedAddress) THEN coords.formattedAddress
                          ELSE JsString(StringOf(validatedArgs.location)),
          latitude    |-> coords.latitude,
          longitude   |-> coords.longitude,
          houseSystem |-> validatedArgs.houseSystem]]

\* NatalChartOutputSchema.parse(result): the paths of its issues.  The
\* fields formatNatalChartData builds have the types the schema asks for;
\* birthData.location is whatever the coordinates carried.
NatalChartOutputSchemaIssues(result) ==
    (IF Len(result.planets) >= 0 /\ Len(result.houses) >= 0 /\ Len(result.aspects) >= 0
     THEN << >> ELSE << "planets" >>)
    \o DateTimeSchemaIssues(result.birthData.datetime, "birthData.datetime")
    \o (IF result.birthData.location.t = "string" THEN << >> ELSE << "birthData.location" >>)

\* The catch block of the CallTool request handler.
CallToolCatch(error) ==
    IF error.name = "ZodError"
    THEN [isError |-> TRUE, text |-> << "Input validation error" >>, issues |-> error.issues]
    ELSE [isError |-> TRUE, text |-> << "Error" >> \o error.message, issues |-> << >>]

\* { content: [{ type: "text", text: JSON.stringify(result, null, 2) }] }
ToolResult(result) == [isError |-> FALSE, text |-> << "result" >>, result |-> result]

----------------------------------------------------------------------------
(* Tool calls: handleNatalChart under the CallTool request handler.  A
   handler runs from one await to the next without interruption; between
   two awaits of one request any step of another request may run. *)

\* tools/natal-chart.ts and tools/coordinates.ts: the tools as advertised.
natalChartTool == [name |-> "astrology_calculate_natal_chart"]

coordinatesTool == [name |-> "astro_get_coordinates"]

\* tools/index.ts: export const tools
tools == << natalChartTool, coordinatesTool >>

\* tools/index.ts declares toolHandlers twice; a build holds one of the two
\* object literals.
toolHandlersAstrology ==
    [n \in {"astrology_calculate_natal_chart", "astrology_get_coordinates"} |->
        IF n = "astrology_calculate_natal_chart" THEN "handleNatalChart"
        ELSE "handleGetCoordinates"]

toolHandlersAstro ==
    [n \in {"astro_calculate_natal_chart", "astro_get_coordinates"} |->
        IF n = "astro_calculate_natal_chart" THEN "handleNatalChart"
        ELSE "handleGetCoordinates"]

ToolHandlerRegistries == {toolHandlersAstrology, toolHandlersAstro}

RequestIds == {1, 2}

NoValue == [status |-> "none"]

NewRequest(args) ==
    [args           |-> args,
     pc             |-> "called",
     stages         |-> << >>,
     validatedArgs  |-> NoValue,
     coords         |-> NoValue,
     horoscope      |-> NoValue,
     geocoderCalls  |-> << >>,
     ephemerisCalls |-> 0,
     response       |-> NoValue]

DateTimeOf(y, mo, d, h, mi) ==
    [t |-> "object", year |-> y, month |-> mo, day |-> d, hour |-> h, minute |-> mi]

CoordinatesOf(lat, lon) == [t |-> "object", latitude |-> lat, longitude |-> lon]

ArgsOf(dt, loc, hs) == [datetime |-> dt, location |-> loc, houseSystem |-> hs]

Birth == DateTimeOf(1990, 6, 15, 12, 30)

LocationInputs ==
    { CoordinatesOf(48, 2), CoordinatesOf(91, 0), CoordinatesOf(-34, 151),
      JsString("Paris, France"), JsString("Springfield"), JsString("Atlantis"),
      JsString("Null Island"), JsString("Offline"), JsString(""),
      JsString(JsonCoordinates), JsString(JsonCoordinatesWithAddress),
      JsString(JsonCoordinatesWithNumberAddress), JsString(JsonCoordinatesOffTheGlobe),
      JsString(JsonLatitudeAsString), JsString(JsonBroken), JsString(JsonCoordinatesIndented),
      JsNumber(7), Undefined }

NatalChartArgsInputs ==
    { ArgsOf(Birth, loc, Undefined) : loc \in LocationInputs }
    \cup { ArgsOf(DateTimeOf(1990, 13, 15, 12, 30), JsString("Paris, France"), Undefined),
           ArgsOf(DateTimeOf(1990, 6, 15, 24, 60), JsString(""), JsNumber(1)),
           ArgsOf(Undefined, CoordinatesOf(48, 2), Undefined),
           ArgsOf(DateTimeOf(2000, 2, 30, 10, 0), CoordinatesOf(48, 2), Undefined),
           ArgsOf(DateTimeOf(1985, 12, 31, 23, 45), JsString("Springfield"), JsString("Koch")),
           ArgsOf(DateTimeOf(2000, 1, 1, 0, 10), CoordinatesOf(-34, 151), JsString("Equal")),
           ArgsOf(Birth, JsString(JsonCoordinates), JsString("Topocentric")) }

InitHandler ==
    /\ pc = "start"
    /\ toolHandlers \in ToolHandlerRegistries
    /\ requests \in [RequestIds -> {NewRequest(a) : a \in NatalChartArgsInputs}]
    /\ ZodiacIdle
    /\ HouseIdle
    /\ AspectIdle
    /\ ChartIdle

\* The request returns: the handler's result, or what the catch block of the
\* CallTool request handler makes of the thrown value.
Returned(q, response) == [q EXCEPT !.pc = "returned", !.response = response]

\* A faulty variant of HandleNatalChart: the location is handed to the
\* geocoder before the arguments are validated.
HandleNatalChartGeocodesFirst(r) ==
    /\ requests[r].pc = "called"
    /\ LET q      == requests[r]
           parsed == CalculateNatalChartArgsSchemaParse(q.args)
           q1     == [q EXCEPT !.stages = << "resolve coordinates", "validate input" >>,
                               !.geocoderCalls = << q.args.location >>]
       IN  IF ~parsed.ok
           THEN requests' = [requests EXCEPT ![r] = Returned(q1, CallToolCatch(parsed.error))]
           ELSE requests' = [requests EXCEPT ![r] =
                    [q1 EXCEPT !.validatedArgs = parsed.value, !.pc = "await geocoder"]]
    /\ UNCHANGED <<pc, toolHandlers>>
    /\ UNCHANGED zodiacVars
    /\ UNCHANGED houseVars
    /\ UNCHANGED aspectVars
    /\ UNCHANGED chartVars

\* handleNatalChart from its call to its first await: input validation, then
\* getCoordinates up to its return or to its call of the geocoder.
HandleNatalChart(r) ==
    /\ requests[r].pc = "called"
    /\ LET q      == requests[r]
           parsed == CalculateNatalChartArgsSchemaParse(q.args)
           q1     == [q EXCEPT !.stages = @ \o << "validate input" >>]
       IN  IF ~parsed.ok
           THEN requests' = [requests EXCEPT ![r] = Returned(q1, CallToolCatch(parsed.error))]
           ELSE LET direct == getCoordinatesDirect(parsed.value.location)
                    q2     == [q1 EXCEPT !.validatedArgs = parsed.value,
                                         !.stages = @ \o << "resolve coordinates" >>]
                IN  IF direct.status = "resolved"
                    THEN requests' = [requests EXCEPT ![r] =
                             [q2 EXCEPT !.coords = direct, !.pc = "await coordinates"]]
                    ELSE requests' = [requests EXCEPT ![r] =
                             [q2 EXCEPT !.geocoderCalls = @ \o << parsed.value.location >>,
                                        !.pc = "await geocoder"]]
    /\ UNCHANGED <<pc, toolHandlers>>
    /\ UNCHANGED zodiacVars
    /\ UNCHANGED houseVars
    /\ UNCHANGED aspectVars
    /\ UNCHANGED chartVars

\* The geocoder answers and getCoordinates runs to its end.
GeocoderAnswers(r) ==
    /\ requests[r].pc = "await geocoder"
    /\ LET q        == requests[r]
           location == q.validatedArgs.location
       IN  requests' = [requests EXCEPT ![r] =
               [q EXCEPT !.coords = getCoordinatesAfterGeocode(location,
                                                               GeocoderAnswer(StringOf(location))),
                         !.pc = "await coordinates"]]
    /\ UNCHANGED <<pc, toolHandlers>>
    /\ UNCHANGED zodiacVars
    /\ UNCHANGED houseVars
    /\ UNCHANGED aspectVars
    /\ UNCHANGED chartVars

\* A faulty variant of ResumeWithCoordinates: the coordinates are kept in
\* one place for all requests, so the handler that resumes finds those of
\* the request that resolved its location last (here: the other request's,
\* when it has any).
ResumeWithCoordinatesShared(r) ==
    /\ requests[r].pc = "await coordinates"
    /\ LET q      == requests[r]
           others == {o \in RequestIds \ {r} : requests[o].coords.status = "resolved"}
           shared == IF others = {} THEN q.coords ELSE requests[CHOOSE o \in others : TRUE].coords
       IN  IF shared.status = "rejected"
           THEN requests' = [requests EXCEPT ![r] = Returned(q, CallToolCatch(shared.error))]
           ELSE LET horoscope == calculateNatalChart(q.validatedArgs.datetime,
                                                     shared.coords.latitude,
                                                     shared.coords.longitude,
                                                     q.validatedArgs.houseSystem)
                IN  requests' = [requests EXCEPT ![r] =
                        [q EXCEPT !.stages = @ \o << "compute chart" >>,
                                  !.horoscope = horoscope,
                                  !.ephemerisCalls = @ + horoscope.ephemerisCalls,
                                  !.pc = "await chart"]]
    /\ UNCHANGED <<pc, toolHandlers>>
    /\ UNCHANGED zodiacVars
    /\ UNCHANGED houseVars
    /\ UNCHANGED aspectVars
    /\ UNCHANGED chartVars

\* handleNatalChart resumes after `await getCoordinates(location)` and runs
\* calculateNatalChart, which has no await of its own.
ResumeWithCoordinates(r) ==
    /\ requests[r].pc = "await coordinates"
    /\ LET q == requests[r]
       IN  IF q.coords.status = "rejected"
           THEN requests' = [requests EXCEPT ![r] = Returned(q, CallToolCatch(q.coords.error))]
           ELSE LET horoscope == calculateNatalChart(q.validatedArgs.datetime,
                                                     q.coords.coords.latitude,
                                                     q.coords.coords.longitude,
                                                     q.validatedArgs.houseSystem)
                IN  requests' = [requests EXCEPT ![r] =
                        [q EXCEPT !.stages = @ \o << "compute chart" >>,
                                  !.horoscope = horoscope,
                                  !.ephemerisCalls = @ + horoscope.ephemerisCalls,
                                  !.pc = "await chart"]]
    /\ UNCHANGED <<pc, toolHandlers>>
    /\ UNCHANGED zodiacVars
    /\ UNCHANGED houseVars
    /\ UNCHANGED aspectVars
    /\ UNCHANGED chartVars

\* handleNatalChart resumes after `await calculateNatalChart(...)`: it formats
\* the snapshot, adds birthData, validates the result and returns it.
ResumeWithChart(r) ==
    /\ requests[r].pc = "await chart"
    /\ LET q == requests[r]
       IN  IF q.horoscope.status = "rejected"
           THEN requests' = [requests EXCEPT ![r] =
                    Returned(q, CallToolCatch(q.horoscope.error))]
           ELSE LET result == NatalChartResult(formatNatalChartData(q.horoscope.value),
                                               q.validatedArgs, q.coords.coords)
                    issues == NatalChartOutputSchemaIssues(result)
                    q1     == [q EXCEPT !.stages = @ \o << "format report", "validate output" >>]
                IN  IF issues # << >>
                    THEN requests' = [requests EXCEPT ![r] =
                             Returned(q1, CallToolCatch(ZodError(issues)))]
                    ELSE requests' = [requests EXCEPT ![r] = Returned(q1, ToolResult(result))]
    /\ UNCHANGED <<pc, toolHandlers>>
    /\ UNCHANGED zodiacVars
    /\ UNCHANGED houseVars
    /\ UNCHANGED aspectVars
    /\ UNCHANGED chartVars

\* handleNatalChart run from its call to its return with no other request
\* in flight.
handleNatalChartAlone(args) ==
    LET parsed == CalculateNatalChartArgsSchemaParse(args)
    IN  IF ~parsed.ok THEN CallToolCatch(parsed.error)
        ELSE
        LET location == parsed.value.location
            direct   == getCoordinatesDirect(location)
            settled  == IF direct.status = "resolved" THEN direct
                        ELSE getCoordinatesAfterGeocode(location,
                                                        GeocoderAnswer(StringOf(location)))
        IN  IF settled.status = "rejected" THEN CallToolCatch(settled.error)
            ELSE
            LET horoscope == calculateNatalChart(parsed.value.datetime,
                                                 settled.coords.latitude,
                                                 settled.coords.longitude,
                                                 parsed.value.houseSystem)
            IN  IF horoscope.status = "rejected" THEN CallToolCatch(horoscope.error)
                ELSE
                LET result == NatalChartResult(formatNatalChartData(horoscope.value),
                                               parsed.value, settled.coords)
                    issues == NatalChartOutputSchemaIssues(result)
                IN  IF issues # << >> THEN CallToolCatch(ZodError(issues))
                    ELSE ToolResult(result)

NextHandler ==
    \E r \in RequestIds :
        \/ HandleNatalChart(r)
        \/ GeocoderAnswers(r)
        \/ ResumeWithCoordinates(r)
        \/ ResumeWithChart(r)

SpecHandler == InitHandler /\ [][NextHandler]_vars

----------------------------------------------------------------------------
(* server.ts: the ListTools and CallTool request handlers *)

\* The members a plain object inherits from Object.prototype that the model
\* tells apart.
ObjectPrototypeMembers == {"constructor", "toString", "valueOf", "hasOwnProperty", "__proto__"}

\* toolHandlers[name]: an own property, else a member inherited from
\* Object.prototype, else undefined.
LookupHandler(registry, name) ==
    IF name \in DOMAIN registry THEN [t |-> "function", handler |-> registry[name]]
    ELSE IF name = "__proto__" THEN [t |-> "object", handler |-> "Object.prototype"]
    ELSE IF name \in ObjectPrototypeMembers
    THEN [t |-> "function", handler |-> "Object.prototype." \o name]
    ELSE Undefined

\* A completion of a function body: a returned value or a thrown one.
Return(value) == [threw |-> FALSE, value |-> value]

Throw(error) == [threw |-> TRUE, error |-> error]

\* GetCoordinatesArgsSchema.parse(args)
GetCoordinatesArgsSchemaParse(args) ==
    IF args.location.t = "string" /\ args.location.v # ""
    THEN [ok |-> TRUE, value |-> [location |-> args.location]]
    ELSE [ok |-> FALSE, error |-> ZodError(<< "location" >>)]

\* CoordinatesOutputSchema.parse(coords): the paths of its issues.
CoordinatesOutputSchemaIssues(coords) ==
    IF coords.formattedAddress.t \in {"undefined", "string"} THEN << >>
    ELSE << "formattedAddress" >>

\* handleGetCoordinates, run from its call to its settlement.
handleGetCoordinates(args) ==
    LET parsed == GetCoordinatesArgsSchemaParse(args)
    IN  IF ~parsed.ok THEN Throw(parsed.error)
        ELSE
        LET location == parsed.value.location
            direct   == getCoordinatesDirect(location)
            settled  == IF direct.status = "resolved" THEN direct
                        ELSE getCoordinatesAfterGeocode(location,
                                                        GeocoderAnswer(StringOf(location)))
        IN  IF settled.status = "rejected" THEN Throw(settled.error)
            ELSE LET issues == CoordinatesOutputSchemaIssues(settled.coords)
                 IN  IF issues # << >> THEN Throw(ZodError(issues))
                     ELSE Return(ToolResult(settled.coords))

\* handler(args) for the handler the lookup found.  Called without a
\* receiver, Object.prototype.toString answers "[object Undefined]", the
\* Object constructor hands back its argument, and valueOf and
\* hasOwnProperty throw a TypeError, as does the call of something that is
\* not a function.
CallHandler(found, args) ==
    IF found.t # "function" THEN Throw(JsError(<< "handler is not a function" >>))
    ELSE CASE found.handler = "handleNatalChart" ->
                  Return(handleNatalChartAlone(args))
           [] found.handler = "handleGetCoordinates" ->
                  handleGetCoordinates(args)
           [] found.handler = "Object.prototype.toString" ->
                  Return(JsString("[object Undefined]"))
           [] found.handler = "Object.prototype.constructor" ->
                  Return(args)
           [] OTHER ->
                  Throw(JsError(<< "Cannot convert undefined or null to object" >>))

\* The CallTool request handler: try { look up, call } catch { ... }.
CallToolRequestHandler(registry, name, args) ==
    LET found == LookupHandler(registry, name)
        tried == IF ~Truthy(found) THEN Throw(JsError(<< "Unknown tool" >>))
                 ELSE CallHandler(found, args)
    IN  IF tried.threw THEN Return(CallToolCatch(tried.error)) ELSE tried

\* The ListTools request handler: return { tools }.
ListToolsRequestHandler == Return([tools |-> tools])

ToolNameInputs ==
    { "astrology_calculate_natal_chart", "astrology_get_coordinates",
      "astro_calculate_natal_chart", "astro_get_coordinates",
      "calculate_natal_chart", "" } \cup ObjectPrototypeMembers

ListToolsRequest == [method |-> "tools/list", pc |-> "received", completion |-> NoValue]

CallToolRequest(name, args) ==
    [method |-> "tools/call", name |-> name, args |-> args,
     pc |-> "received", completion |-> NoValue]

InitServer ==
    /\ pc = "start"
    /\ toolHandlers \in ToolHandlerRegistries
    /\ requests \in [{1} -> {ListToolsRequest}
                              \cup {CallToolRequest(n, a) : n \in ToolNameInputs,
                                                            a \in NatalChartArgsInputs}]
    /\ ZodiacIdle
    /\ HouseIdle
    /\ AspectIdle
    /\ ChartIdle

ListTools(r) ==
    /\ requests[r].pc = "received"
    /\ requests[r].method = "tools/list"
    /\ requests' = [requests EXCEPT ![r] =
           [@ EXCEPT !.pc = "settled", !.completion = ListToolsRequestHandler]]
    /\ UNCHANGED <<pc, toolHandlers>>
    /\ UNCHANGED zodiacVars
    /\ UNCHANGED houseVars
    /\ UNCHANGED aspectVars
    /\ UNCHANGED chartVars

CallTool(r) ==
    /\ requests[r].pc = "received"
    /\ requests[r].method = "tools/call"
    /\ requests' = [requests EXCEPT ![r] =
           [@ EXCEPT !.pc = "settled",
                     !.completion = CallToolRequestHandler(toolHandlers, requests[r].name,
                                                          requests[r].args)]]
    /\ UNCHANGED <<pc, toolHandlers>>
    /\ UNCHANGED zodiacVars
    /\ UNCHANGED houseVars
    /\ UNCHANGED aspectVars
    /\ UNCHANGED chartVars

NextServer == \E r \in {1} : ListTools(r) \/ CallTool(r)

SpecServer == InitServer /\ [][NextServer]_vars

----------------------------------------------------------------------------
(* The chart angles in IEEE 754 double arithmetic *)

\* A JavaScript number close to a multiple of 1/16: the double of value
\* hi / 16 + lo * 2^-56.  The remainders lo that occur are far below 1/16,
\* so hi (and the sign of lo, when hi / 16 is a power of two) decides the
\* binade of the number.
Double(hi, lo) == [hi |-> hi, lo |-> lo]

Sixteenths(whole) == 16 * whole

RECURSIVE Pow2Floor(_)
Pow2Floor(n) == IF n < 2 THEN 1 ELSE 2 * Pow2Floor(n \div 2)

\* The distance between neighbouring doubles at hi / 16 + lo * 2^-56, in
\* units of 2^-56: 2^(e - 52) for a number in [2^e, 2^(e+1)).
UlpUnits(hi, lo) == Pow2Floor(IF lo < 0 THEN hi - 1 ELSE hi)

\* Round to nearest, ties to even.
RoundToEven(lo, ulp) ==
    LET q == lo \div ulp
        r == lo % ulp
    IN  IF 2 * r < ulp THEN q * ulp
        ELSE IF 2 * r > ulp THEN (q + 1) * ulp
        ELSE IF q % 2 = 0 THEN q * ulp ELSE (q + 1) * ulp

IsDouble(x) == x.lo % UlpUnits(x.hi, x.lo) = 0

\* x + whole: the exact sum rounded to the nearest double.
DoubleAdd(x, whole) ==
    LET hi == x.hi + Sixteenths(whole)
    IN  Double(hi, RoundToEven(x.lo, UlpUnits(hi, x.lo)))

\* Whole multiples of `whole` in x >= 0: Math.floor(x / whole).
DoubleFloorDiv(x, whole) ==
    IF x.hi % Sixteenths(whole) = 0 /\ x.lo < 0
    THEN x.hi \div Sixteenths(whole) - 1
    ELSE x.hi \div Sixteenths(whole)

\* x % whole for x >= 0: the remainder is exact.
DoubleRem(x, whole) == Double(x.hi - Sixteenths(whole) * DoubleFloorDiv(x, whole), x.lo)

\* degreeToZodiacSign on a double in [0,360): of its three operations only
\* the addition of 360 rounds.
degreeToZodiacSignDouble(x) ==
    LET normalizedDegree == DoubleRem(DoubleAdd(DoubleRem(x, 360), 360), 360)
        signIndex        == DoubleFloorDiv(normalizedDegree, 30)
    IN  [sign         |-> ZODIAC_SIGNS[signIndex + 1].label,
         signKey      |-> ZODIAC_SIGNS[signIndex + 1].key,
         degreeInSign |-> DoubleRem(normalizedDegree, 30)]

\* formatZodiacDegree on a double in [0,30): hi / 16 degrees are 225 * hi
\* seconds of arc, and a remainder below zero takes the last second away.
formatZodiacDegreeDouble(x) ==
    LET seconds == 225 * x.hi - (IF x.lo < 0 THEN 1 ELSE 0)
    IN  [deg |-> seconds \div 3600, min |-> (seconds \div 60) % 60, sec |-> seconds % 60]

\* parseFloat(x.toFixed(6)): the remainder is below the seventh decimal.
toFixed6Double(x) == x.hi * (UnitsPerDegree \div 16)

\* { sign, degree, longitude } of one chart angle.
ChartAngleDouble(x) ==
    LET info == degreeToZodiacSignDouble(x)
    IN  [sign      |-> info.sign,
         degree    |-> formatZodiacDegreeDouble(info.degreeInSign),
         longitude |-> toFixed6Double(x)]

\* (angle + 180) % 360
OppositeDegreeDouble(x) == DoubleRem(DoubleAdd(x, 180), 360)

\* formatNatalChartData: the chartAngles of the report.
chartAnglesDouble(houses) ==
    [ascendant  |-> ChartAngleDouble(houses.ascendant),
     midheaven  |-> ChartAngleDouble(houses.mc),
     descendant |-> ChartAngleDouble(OppositeDegreeDouble(houses.ascendant)),
     imumCoeli  |-> ChartAngleDouble(OppositeDegreeDouble(houses.mc))]

\* Angles on and next to multiples of 1/16 of a degree.
DoubleAngleInputs ==
    { x \in { Double(hi, sg * k * 256) :
                 hi \in {1, 2, 479, 480, 481, 1601, 2881, 3000, 5759},
                 k  \in {0, 4, 10, 16, 32, 128},
                 sg \in {-1, 1} } : IsDouble(x) }

DoubleMidheavenInputs == { Double(1217, 0), Double(1217, 2048), Double(4320, -4096), Double(4320, 0) }

InitAngles ==
    /\ pc = "start"
    /\ chartData \in { [houses |-> [ascendant |-> a, mc |-> m]] :
                          a \in DoubleAngleInputs, m \in DoubleMidheavenInputs }
    /\ report = NoReport
    /\ prevReport = NoReport
    /\ ZodiacIdle
    /\ HouseIdle
    /\ AspectIdle
    /\ HandlerIdle

FormatChartAngles ==
    /\ pc = "start"
    /\ report' = [chartAngles |-> chartAnglesDouble(chartData.houses)]
    /\ pc' = "done"
    /\ UNCHANGED <<chartData, prevReport>>
    /\ UNCHANGED zodiacVars
    /\ UNCHANGED houseVars
    /\ UNCHANGED aspectVars
    /\ UNCHANGED handlerVars

NextAngles == FormatChartAngles

SpecAngles == InitAngles /\ [][NextAngles]_vars

Init == InitZodiac \/ InitFormat \/ InitHouse \/ InitAspects \/ InitAspectTable \/ InitChart \/ InitSession \/ InitAngles \/ InitServer
        \/ InitHandler

Next == NextZodiac \/ NextFormat \/ NextHouse \/ NextAspects \/ NextChart \/ NextSession \/ NextAngles \/ NextServer
        \/ NextHandler

Spec == Init /\ [][Next]_vars

----------------------------------------------------------------------------
(* Zodiac Mapper: claims *)

ZodiacCalled == pc \in {"done", "redone"}

\* The index (0..11) of a sign label in the table, or -1.
SignIndexOf(label) ==
    IF \E i \in DOMAIN ZODIAC_SIGNS : ZODIAC_SIGNS[i].label = label
    THEN (CHOOSE i \in DOMAIN ZODIAC_SIGNS : ZODIAC_SIGNS[i].label = label) - 1
    ELSE -1

\* C4: for every longitude x, negative or >= 360 included, the sign returned
\* is the one at index floor(n / 30) of the table, n being the representative
\* of x in [0,360); the index is within 0..11; degreeInSign = n mod 30 lies in
\* [0,30) and 30 * index + degreeInSign = n.  0 -> Aries 0, 30 -> Taurus 0,
\* 45 -> Taurus 15, 360 -> Aries 0, -30 -> Pisces 0.
C4_SignOfNormalizedDegree ==
    ZodiacCalled =>
        LET n   == degree % FullCircle
            idx == SignIndexOf(zodiac.sign)
        IN  /\ idx \in 0..11
            /\ idx = n \div SignWidth
            /\ zodiac.signKey = ZODIAC_SIGNS[idx + 1].key
            /\ zodiac.degreeInSign = n % SignWidth
            /\ zodiac.degreeInSign >= 0 /\ zodiac.degreeInSign < SignWidth
            /\ SignWidth * idx + zodiac.degreeInSign = n
            /\ (degree = 0        => zodiac.sign = "Aries"  /\ zodiac.degreeInSign = 0)
            /\ (degree = Deg(30)  => zodiac.sign = "Taurus" /\ zodiac.degreeInSign = 0)
            /\ (degree = Deg(45)  => zodiac.sign = "Taurus" /\ zodiac.degreeInSign = Deg(15))
            /\ (degree = Deg(360) => zodiac.sign = "Aries"  /\ zodiac.degreeInSign = 0)
            /\ (degree = Deg(-30) => zodiac.sign = "Pisces" /\ zodiac.degreeInSign = 0)

\* C4 witness: the mapper has run on -30 degrees and answered Pisces.
C4_Witness ==
    /\ pc = "done"
    /\ degree = Deg(-30)
    /\ zodiac.sign = "Pisces"

----------------------------------------------------------------------------
(* Degree Formatter: claims *)

\* 3600 x = 3600 D + 9 r / 5000 for x = D degrees + r units, since one degree
\* is 3600 seconds and 2 000 000 units.
SecondsTimes5000(r) == 9 * r

----------------------------------------------------------------------------
(* House Locator: claims *)

\* 12 cusps in [0,360) that increase around the circle with exactly one
\* 360/0 wrap.
WellFormed(c) ==
    /\ \A i \in 1..12 : IsNumber(c[i]) /\ c[i] >= 0 /\ c[i] < FullCircle
    /\ Cardinality({i \in 1..12 : NextCusp(i, c) <= c[i]}) = 1

\* n lies on the half-open arc that runs forward from cusp i to the next cusp.
InArc(i, n, c) == (n - c[i]) % FullCircle < (NextCusp(i, c) - c[i]) % FullCircle

EqualCusps == [i \in 0..12 |-> IF i = 0 THEN 0 ELSE Deg(30) * (i - 1)]

\* C1: for a well-formed cusp sequence and any longitude the result is the
\* one house whose half-open arc [cusps[i], cusps[i+1]) holds the normalized
\* longitude; a body exactly on cusp i is in house i.  With equal cusps from
\* 0: 0 -> 1, 15 -> 1, 30 -> 2, 355 -> 12.
C1_HouseIsTheArcHoldingTheLongitude ==
    (pc = "done" /\ WellFormed(cusps)) =>
        LET n == longitude % FullCircle
        IN  /\ house \in 1..12
            /\ \A i \in 1..12 : InArc(i, n, cusps) <=> i = house
            /\ \A i \in 1..12 : n = cusps[i] => house = i
            /\ (cusps = EqualCusps /\ longitude = 0        => house = 1)
            /\ (cusps = EqualCusps /\ longitude = Deg(15)  => house = 1)
            /\ (cusps = EqualCusps /\ longitude = Deg(30)  => house = 2)
            /\ (cusps = EqualCusps /\ longitude = Deg(355) => house = 12)

\* C1 witness: a body exactly on the cusp of the wrapping house, which is
\* neither house 1 nor house 12.
C1_Witness ==
    /\ pc = "done"
    /\ WellFormed(cusps)
    /\ house \in 2..11
    /\ longitude = cusps[house]
    /\ cusps[house + 1] < cusps[house]

NoHouseMatches ==
    \A i \in 1..12 : ~HouseMatches(i, Normalize360(longitude), cusps)

\* C8: for any cusp values and any longitude the result is a house number in
\* 1..12, and it is 1 when no house's membership test matches.
C8_HouseAlwaysInRange ==
    pc = "done" =>
        /\ house \in 1..12
        /\ (NoHouseMatches => house = 1)

\* C8 witness: no membership test matched and house 1 was returned.
C8_Witness ==
    /\ pc = "done"
    /\ NoHouseMatches
    /\ house = 1

AllNumeric(c) == \A i \in 1..12 : IsNumber(c[i])

MatchingHouses == {i \in 1..12 : HouseMatches(i, Normalize360(longitude), cusps)}

LowestOf(S) == CHOOSE i \in S : \A j \in S : i <= j

\* C22: when more than one house's membership test matches the longitude,
\* the house returned is the lowest-numbered one that matches.
C22_LowestMatchingHouse ==
    (pc = "done" /\ Cardinality(MatchingHouses) > 1) =>
        house = LowestOf(MatchingHouses)

\* C22 witness: a cusp sequence that goes twice round the circle, the
\* longitude is matched by a house of the first turn and by one of the
\* second, and the one of the first turn is returned.
C22_Witness ==
    /\ pc = "done"
    /\ AllNumeric(cusps)
    /\ Cardinality({i \in 1..12 : NextCusp(i, cusps) <= cusps[i]}) = 2
    /\ Cardinality(MatchingHouses) = 2
    /\ house \in 2..6
    /\ house + 6 \in MatchingHouses

\* C24: with 12 numeric cusps, in [0,360) or not, in order or not, at least
\* one house's membership test matches the longitude, and the house
\* returned is one that matched: the fallback after the loop is not what
\* produced it.
C24_SomeHouseMatches ==
    (pc = "done" /\ AllNumeric(cusps)) =>
        /\ MatchingHouses # {}
        /\ house \in MatchingHouses

\* C24 witness: cusps outside [0,360) and out of order, a longitude given
\* below 0, and exactly one house matches; it is not house 1.
C24_Witness ==
    /\ pc = "done"
    /\ AllNumeric(cusps)
    /\ \E i \in 1..12 : cusps[i] >= FullCircle
    /\ longitude < 0
    /\ Cardinality(MatchingHouses) = 1
    /\ house \in MatchingHouses
    /\ house > 1

EqualCuspHouses == {i \in 1..12 : IsNumber(cusps[i]) /\ cusps[i] = NextCusp(i, cusps)}

\* C29: a house whose cusp equals the next cusp matches every longitude, so
\* no house with a greater number is returned for that cusp sequence.
C29_EqualCuspsCatchAll ==
    pc = "done" =>
        \A i \in EqualCuspHouses :
            /\ HouseMatches(i, Normalize360(longitude), cusps)
            /\ house <= i

\* C29 witness: cusps of house 3 and house 4 coincide, the longitude lies
\* in the arc of a later house, which matches too, and house 3 or a lower
\* one is returned.
C29_Witness ==
    /\ pc = "done"
    /\ AllNumeric(cusps)
    /\ EqualCuspHouses = {3}
    /\ \E j \in 4..12 : j \in MatchingHouses /\ InArc(j, Normalize360(longitude), cusps)
    /\ house <= 3

----------------------------------------------------------------------------
(* Aspect Detector: claims *)

AspectsCalled == pc \in {"done", "redone"}

InRange(ps) == \A i \in DOMAIN ps : ps[i].longitude >= 0 /\ ps[i].longitude < FullCircle

\* The shorter of the two arcs between two points of the circle.
ShortArc(a, b) ==
    LET d == (a - b) % FullCircle
    IN  IF d <= FullCircle - d THEN d ELSE FullCircle - d

Pairs == {p \in (DOMAIN planets) \X (DOMAIN planets) : p[1] < p[2]}

EntriesOfPair(i, j) ==
    SelectSeq(aspects, LAMBDA a : a.point1 = planets[i].name /\ a.point2 = planets[j].name)

EntriesOfPairNamed(i, j, name) ==
    SelectSeq(EntriesOfPair(i, j), LAMBDA a : a.aspect = name)

Hundredth == UnitsPerDegree \div 100

\* r is x (x >= 0) rounded to two decimals, a tie going up.
RoundedTo2(x, r) ==
    /\ r % Hundredth = 0
    /\ 2 * Abs(r - x) <= Hundredth
    /\ (2 * Abs(r - x) = Hundredth => r > x)

\* The part of C2 about which definitions are emitted: the code's folded
\* difference is the shorter arc, within [0,180], and a definition is
\* emitted for a pair exactly when |sep - angle| <= orb.
EmittedIffWithinOrb ==
    \A p \in Pairs : \A k \in DOMAIN aspectTypes :
        LET sep   == ShortArc(planets[p[1]].longitude, planets[p[2]].longitude)
            exact == Abs(sep - aspectTypes[k].angle)
            es    == EntriesOfPairNamed(p[1], p[2], aspectTypes[k].name)
        IN  /\ AngularDistance(planets[p[1]], planets[p[2]]) = sep
            /\ sep >= 0 /\ sep <= Deg(180)
            /\ Len(es) = (IF exact <= aspectTypes[k].orb THEN 1 ELSE 0)

\* C2 as stated: for longitudes in [0,360) a definition is emitted exactly
\* when |sep - angle| <= orb, and the emitted orb equals |sep - angle|.
C2_EmittedOrbIsExactDistance ==
    (AspectsCalled /\ InRange(planets)) =>
        /\ EmittedIffWithinOrb
        /\ \A p \in Pairs : \A k \in DOMAIN aspectTypes :
              LET sep   == ShortArc(planets[p[1]].longitude, planets[p[2]].longitude)
                  exact == Abs(sep - aspectTypes[k].angle)
                  es    == EntriesOfPairNamed(p[1], p[2], aspectTypes[k].name)
              IN  \A n \in DOMAIN es : es[n].orb = exact

\* C2 amended: ... and the emitted orb is |sep - angle| rounded to two
\* decimals.  Separation 8 gives a Conjunction with orb 8, separation 95 a
\* Square with orb 5, separation 15 no Conjunction.
C2_EmittedOrbIsRoundedDistance ==
    (AspectsCalled /\ InRange(planets)) =>
        /\ EmittedIffWithinOrb
        /\ \A p \in Pairs : \A k \in DOMAIN aspectTypes :
              LET sep   == ShortArc(planets[p[1]].longitude, planets[p[2]].longitude)
                  exact == Abs(sep - aspectTypes[k].angle)
                  es    == EntriesOfPairNamed(p[1], p[2], aspectTypes[k].name)
              IN  \A n \in DOMAIN es : RoundedTo2(exact, es[n].orb)
        /\ (planets = PlanetsAt(<< 0, Deg(8) >>) =>
               /\ Len(aspects) = 1
               /\ aspects[1].aspect = "Conjunction" /\ aspects[1].orb = Deg(8))
        /\ (planets = PlanetsAt(<< 0, Deg(95) >>) =>
               /\ Len(aspects) = 1
               /\ aspects[1].aspect = "Square" /\ aspects[1].orb = Deg(5))
        /\ (planets = PlanetsAt(<< 0, Deg(15) >>) =>
               \A n \in DOMAIN aspects : aspects[n].aspect # "Conjunction")

\* C2 witness: two bodies 60.005 apart across the 360/0 boundary (a raw
\* difference above 180, folded), emitted as a Sextile whose orb is 0.01.
C2_Witness ==
    /\ pc = "done"
    /\ InRange(planets)
    /\ Len(planets) = 2
    /\ Abs(planets[1].longitude - planets[2].longitude) > Deg(180)
    /\ ShortArc(planets[1].longitude, planets[2].longitude) = Deg(60) + 10000
    /\ Len(aspects) = 1
    /\ aspects[1].aspect = "Sextile"
    /\ aspects[1].orb = Hundredth

BodyIndex(name) == CHOOSE i \in DOMAIN planets : planets[i].name = name

TypeIndex(name) == CHOOSE k \in DOMAIN aspectTypes : aspectTypes[k].name = name

LexLess(a, b) ==
    \/ a[1] < b[1]
    \/ a[1] = b[1] /\ a[2] < b[2]
    \/ a[1] = b[1] /\ a[2] = b[2] /\ a[3] < b[3]

EntryKey(a) == << BodyIndex(a.point1), BodyIndex(a.point2), TypeIndex(a.aspect) >>

\* C3: every unordered pair is examined once and no body with itself: each
\* entry has point1 at a strictly earlier input index than point2, every pair
\* inside a window has an entry, and the list is ordered by (index of
\* point1, index of point2, position of the definition in the table).
C3_PairsOnceInOrder ==
    AspectsCalled =>
        /\ \A n \in DOMAIN aspects :
              BodyIndex(aspects[n].point1) < BodyIndex(aspects[n].point2)
        /\ \A n \in 1..(Len(aspects) - 1) :
              LexLess(EntryKey(aspects[n]), EntryKey(aspects[n + 1]))
        /\ \A p \in Pairs :
              (\E k \in DOMAIN aspectTypes :
                   Abs(AngularDistance(planets[p[1]], planets[p[2]]) - aspectTypes[k].angle)
                       <= aspectTypes[k].orb)
              => Len(EntriesOfPair(p[1], p[2])) = 1

\* C3 witness: three bodies, every pair of them in aspect.
C3_Witness ==
    /\ pc = "done"
    /\ Len(planets) = 3
    /\ Len(aspects) = 3
    /\ aspects[1].point2 = "Moon"
    /\ aspects[2].point2 = "Mercury"
    /\ aspects[3].point1 = "Moon"

\* C7 as stated: moving a body by whole turns leaves the list of aspects
\* unchanged.
C7_WholeTurnsKeepAspects ==
    pc = "redone" => aspects = prevAspects

\* C9: every definition of the table is tested for every pair and each one
\* whose window holds the separation is emitted, in table order; the loop
\* does not stop at the first match.
C9_EveryMatchingDefinitionEmitted ==
    (AspectsCalled /\ InRange(planets)) =>
        \A p \in Pairs :
            LET sep     == ShortArc(planets[p[1]].longitude, planets[p[2]].longitude)
                matches == SelectSeq(aspectTypes,
                               LAMBDA t : Abs(sep - t.angle) <= t.orb)
                es      == EntriesOfPair(p[1], p[2])
            IN  /\ Len(es) = Len(matches)
                /\ \A n \in DOMAIN es :
                      /\ es[n].aspect = matches[n].name
                      /\ es[n].orbUsed = matches[n].orb

\* C9 witness: a pair that two definitions of an overlapping table match.
C9_Witness ==
    /\ pc = "done"
    /\ Len(planets) = 2
    /\ Len(aspects) = 2
    /\ aspects[1].aspect = "Sextile"
    /\ aspects[2].aspect = "Semi-Square"

\* Three bodies at a, a + 120 and a + 240 (mod 360), in any order.
IsGrandTrine(ps) ==
    /\ Len(ps) = 3
    /\ InRange(ps)
    /\ LET lons == {ps[i].longitude : i \in 1..3}
       IN  \E a \in lons :
               lons = {a, (a + Deg(120)) % FullCircle, (a + Deg(240)) % FullCircle}

\* C10: a grand trine yields exactly three Trine aspects, one per pair, each
\* with orb 0, also when a raw difference is 240.
C10_GrandTrine ==
    (AspectsCalled /\ IsGrandTrine(planets)) =>
        /\ Len(SelectSeq(aspects, LAMBDA a : a.aspect = "Trine")) = 3
        /\ \A p \in Pairs :
              LET es == EntriesOfPairNamed(p[1], p[2], "Trine")
              IN  Len(es) = 1 /\ es[1].orb = 0

\* C10 witness: a grand trine with a pair whose raw difference is 240.
C10_Witness ==
    /\ pc = "done"
    /\ IsGrandTrine(planets)
    /\ Abs(planets[1].longitude - planets[2].longitude) = Deg(240)
    /\ Len(aspects) = 3

\* The nine definitions as the specification lists them: name, exact angle,
\* maximum orb (whole degrees) and level.
ListedDefinitions ==
    { << "Conjunction",      0, 10, "major" >>, << "Sextile",         60,  6, "major" >>,
      << "Square",          90,  8, "major" >>, << "Trine",          120,  8, "major" >>,
      << "Opposition",     180, 10, "major" >>, << "Semi-Sextile",    30,  3, "minor" >>,
      << "Semi-Square",     45,  3, "minor" >>, << "Sesquiquadrate", 135,  3, "minor" >>,
      << "Quincunx",       150,  3, "minor" >> }

\* The only entry of the list is the aspect of the given name with orb 0.
OnlyAspectIs(name) ==
    /\ Len(aspects) = 1
    /\ aspects[1].aspect = name
    /\ aspects[1].orb = 0
    /\ aspects[1].point1 = planets[1].name
    /\ aspects[1].point2 = planets[2].name

\* C11: two bodies (longitudes in [0,360)) whose separation equals the exact
\* angle of a definition yield exactly one aspect, that definition's, with
\* orb 0; longitudes 0 and 180 yield one Opposition with orb 0, longitudes 0
\* and 0 one Conjunction with orb 0.
C11_ExactAngleYieldsOneAspect ==
    (AspectsCalled /\ InRange(planets) /\ Len(planets) = 2) =>
        /\ \A d \in ListedDefinitions :
              ShortArc(planets[1].longitude, planets[2].longitude) = Deg(d[2])
                  => OnlyAspectIs(d[1])
        /\ (planets = PlanetsAt(<< 0, Deg(180) >>) => OnlyAspectIs("Opposition"))
        /\ (planets = PlanetsAt(<< 0, 0 >>) => OnlyAspectIs("Conjunction"))

\* C11 witness: two bodies exactly 135 apart across the 360/0 boundary, one
\* Sesquiquadrate with orb 0.
C11_Witness ==
    /\ pc = "done"
    /\ Len(planets) = 2
    /\ planets[1].longitude = Deg(360) - 1
    /\ planets[2].longitude = Deg(135) - 1
    /\ OnlyAspectIs("Sesquiquadrate")

WindowLow(t) == IF t.angle - t.orb < 0 THEN 0 ELSE t.angle - t.orb

WindowHigh(t) == IF t.angle + t.orb > Deg(180) THEN Deg(180) ELSE t.angle + t.orb

WindowsDisjoint(table) ==
    \A k, l \in DOMAIN table :
        k # l => (WindowHigh(table[k]) < WindowLow(table[l])
                    \/ WindowHigh(table[l]) < WindowLow(table[k]))

\* C25: the nine orb windows of the table the function reads are pairwise
\* disjoint on [0,180]; for longitudes in [0,360) every pair of bodies has
\* at most one entry in the output, and n bodies have at most n*(n-1)/2.
C25_AtMostOneAspectPerPair ==
    (AspectsCalled /\ InRange(planets)) =>
        /\ Len(aspectTypes) = 9
        /\ WindowsDisjoint(aspectTypes)
        /\ \A p \in Pairs : Len(EntriesOfPair(p[1], p[2])) <= 1
        /\ 2 * Len(aspects) <= Len(planets) * (Len(planets) - 1)

\* C25 witness: three bodies, every pair in aspect, three entries of three
\* different definitions.
C25_Witness ==
    /\ pc = "done"
    /\ InRange(planets)
    /\ Len(planets) = 3
    /\ Len(aspects) = 3
    /\ Cardinality({aspects[n].aspect : n \in DOMAIN aspects}) = 3
    /\ \A p \in Pairs : Len(EntriesOfPair(p[1], p[2])) = 1

----------------------------------------------------------------------------
(* Chart Angle Deriver: claims *)

\* The point of the circle opposite to a.
Opposite(a) == (a + Deg(180)) % FullCircle

Millionth == UnitsPerDegree \div 1000000

\* r is x rounded to six decimals, a tie going away from zero.
RoundedTo6(x, r) ==
    /\ r % Millionth = 0
    /\ 2 * Abs(r - x) <= Millionth
    /\ (2 * Abs(r - x) = Millionth => Abs(r) > Abs(x))

\* The sign and the formatted degree of an angle are those of the longitude d.
PlacedAt(angle, d) ==
    /\ angle.sign = degreeToZodiacSign(d).sign
    /\ angle.degree = formatZodiacDegree(degreeToZodiacSign(d).degreeInSign)
    /\ angle.sign = ZODIAC_SIGNS[((d % FullCircle) \div SignWidth) + 1].label

----------------------------------------------------------------------------
(* Chart Assembler: claims *)

SignLabels == {ZODIAC_SIGNS[i].label : i \in DOMAIN ZODIAC_SIGNS}

\* The four parts every report has, whatever the snapshot.
CompleteReport ==
    /\ DOMAIN report = {"planets", "houses", "aspects", "chartAngles", "sunSign"}
    /\ Len(report.planets) = Len(chartData.planets)
    /\ Len(report.houses) = 12
    /\ DOMAIN report.chartAngles = {"ascendant", "descendant", "midheaven", "imumCoeli"}

SunIndexes == {i \in DOMAIN chartData.planets : chartData.planets[i].key = "sun"}

\* C14: sunSign is the zodiac sign of the planet whose key is "sun", the
\* sign of that planet's entry in the report's planets list; without such a
\* planet sunSign is "Unknown" and the report is still complete.
C14_SunSignOrUnknown ==
    pc = "done" =>
        /\ CompleteReport
        /\ IF SunIndexes = {}
           THEN report.sunSign = "Unknown"
           ELSE \A i \in SunIndexes :
                    /\ report.sunSign = chartData.planets[i].zodiacSign
                    /\ report.sunSign = report.planets[i].sign
                    /\ report.planets[i].name = "Sun"
                    /\ report.sunSign \in SignLabels

\* C14 witness: a snapshot without the Sun, reported with sunSign "Unknown"
\* next to three planets, twelve houses and the angles.
C14_Witness ==
    /\ pc = "done"
    /\ SunIndexes = {}
    /\ report.sunSign = "Unknown"
    /\ Len(report.planets) = 3
    /\ Len(report.houses) = 12
    /\ report.chartAngles.ascendant.sign \in SignLabels

\* The (pair, definition) combinations of the snapshot's planets that are
\* within orb.
MatchesOfSnapshot ==
    LET ps == chartData.planets
    IN  { t \in (DOMAIN ps) \X (DOMAIN ps) \X (DOMAIN ASPECT_TYPES) :
            /\ t[1] < t[2]
            /\ Abs(ShortArc(ps[t[1]].longitude, ps[t[2]].longitude) - ASPECT_TYPES[t[3]].angle)
                   <= ASPECT_TYPES[t[3]].orb }

\* C18: the report has one planet entry per input planet in the same order,
\* exactly 12 house entries numbered 1..12 in ascending order, entry n made
\* from cusps[n] (index 0 skipped), the aspects of the full planet set, and
\* the four chart angles.
C18_ReportShape ==
    pc = "done" =>
        /\ CompleteReport
        /\ \A i \in DOMAIN chartData.planets :
              /\ report.planets[i].name = chartData.planets[i].name
              /\ report.planets[i].house = chartData.planets[i].house
              /\ RoundedTo6(chartData.planets[i].longitude, report.planets[i].longitude)
        /\ DOMAIN report.houses = 1..12
        /\ \A n \in 1..12 :
              /\ report.houses[n].number = n
              /\ RoundedTo6(chartData.houses.cusps[n], report.houses[n].cuspDegree)
              /\ report.houses[n].sign =
                     ZODIAC_SIGNS[(chartData.houses.cusps[n] \div SignWidth) + 1].label
        /\ Len(report.aspects) = Cardinality(MatchesOfSnapshot)
        /\ \A t \in MatchesOfSnapshot :
              \E n \in DOMAIN report.aspects :
                  /\ report.aspects[n].point1 = chartData.planets[t[1]].name
                  /\ report.aspects[n].point2 = chartData.planets[t[2]].name
                  /\ report.aspects[n].aspect = ASPECT_TYPES[t[3]].name

\* C18 witness: all thirteen bodies of the catalog in catalog order, with
\* aspects between the first and the last of them, house 1 on cusps[1].
C18_Witness ==
    /\ pc = "done"
    /\ Len(report.planets) = 13
    /\ report.planets[1].name = "Sun"
    /\ report.planets[13].name = "Chiron"
    /\ report.houses[1].cuspDegree = toFixed(chartData.houses.cusps[1], 6)
    /\ chartData.houses.cusps[1] # chartData.houses.cusps[0]
    /\ \E n \in DOMAIN report.aspects : report.aspects[n].point2 = "Chiron"

----------------------------------------------------------------------------
(* Frame *)

\* A step in which a call of one of the functions returns.
CallReturns == pc' # pc /\ pc' \in {"done", "redone"}

\* C17: calculateAspects, calculateHousePositionForPlanet and
\* formatNatalChartData leave their arguments as they were: the planets
\* array and every record in it, the longitude, the cusps array and the
\* snapshot hold the same values after the call as before it.
C17_ArgumentsUnchanged ==
    [][CallReturns =>
          /\ planets' = planets
          /\ longitude' = longitude
          /\ cusps' = cusps
          /\ chartData' = chartData]_vars

\* C17 witness: formatNatalChartData has returned a report with aspects and
\* the snapshot still holds its thirteen planets and thirteen cusp values.
C17_Witness ==
    /\ pc = "done"
    /\ report # NoReport
    /\ Len(report.aspects) > 0
    /\ Len(chartData.planets) = 13
    /\ chartData.planets[13].key = "chiron"
    /\ DOMAIN chartData.houses.cusps = 0..12

----------------------------------------------------------------------------
(* Tool calls: claims *)

HandlerRuns == requests # << >>

ReturnedRequests == {r \in DOMAIN requests : requests[r].pc = "returned"}

\* A step changes the record of one request at most.
OneRequestSteps == \E r \in RequestIds : \A o \in RequestIds \ {r} : requests'[o] = requests[o]

\* C16: two tool calls whose handlers interleave at their awaits each return
\* the response they would return if run alone; a step of one request
\* leaves the other request's state as it was, and the catalog the
\* handlers read is never modified.
C16_InterleavedAsAlone ==
    /\ [](HandlerRuns =>
            /\ aspectTypes = ASPECT_TYPES
            /\ \A r \in ReturnedRequests :
                  requests[r].response = handleNatalChartAlone(requests[r].args))
    /\ [][HandlerRuns => (OneRequestSteps /\ aspectTypes' = aspectTypes)]_vars

\* C16 witness: both requests have returned a report, one for coordinates
\* the geocoder found and one for coordinates given as an object, each
\* with its own coordinates in birthData.
C16_Witness ==
    /\ HandlerRuns
    /\ ReturnedRequests = RequestIds
    /\ ~requests[1].response.isError
    /\ ~requests[2].response.isError
    /\ requests[1].geocoderCalls # << >>
    /\ requests[2].geocoderCalls = << >>
    /\ requests[1].response.result.birthData.latitude = 39
    /\ requests[2].response.result.birthData.latitude = -34
    /\ requests[1].response.result.planets # requests[2].response.result.planets

StageOrder ==
    << "validate input", "resolve coordinates", "compute chart",
       "format report", "validate output" >>

IsPrefix(s, t) == Len(s) <= Len(t) /\ \A i \in 1..Len(s) : s[i] = t[i]

\* The arguments the input schema admits, read off its field constraints.
InputIsValid(args) ==
    /\ args.datetime.t = "object"
    /\ args.datetime.year \in 1800..2200
    /\ args.datetime.month \in 1..12
    /\ args.datetime.day \in 1..31
    /\ args.datetime.hour \in 0..23
    /\ args.datetime.minute \in 0..59
    /\ IF args.location.t = "object"
       THEN args.location.latitude \in -90..90 /\ args.location.longitude \in -180..180
       ELSE args.location.t = "string" /\ args.location.v # ""
    /\ args.houseSystem.t \in {"undefined", "string"}

\* A request's record changes by stages being appended only, and not at
\* all once the handler has returned.
StagesOnlyGrow ==
    \A r \in RequestIds :
        /\ IsPrefix(requests[r].stages, requests'[r].stages)
        /\ requests[r].pc = "returned" => requests'[r] = requests[r]

\* C19: handleNatalChart runs its stages in the order validate input,
\* resolve coordinates, compute chart, format report, validate output; a
\* stage that fails is the last one run; invalid input reaches neither the
\* geocoder nor the ephemeris; a report is returned only after all five
\* stages ran and output validation found no issue.
C19_StagesInOrder ==
    /\ [](HandlerRuns => \A r \in RequestIds :
            LET q == requests[r]
            IN  /\ IsPrefix(q.stages, StageOrder)
                /\ q.geocoderCalls # << >> => Len(q.stages) >= 2
                /\ q.ephemerisCalls > 0 => Len(q.stages) >= 3
                /\ ~InputIsValid(q.args) =>
                      /\ q.geocoderCalls = << >>
                      /\ q.ephemerisCalls = 0
                      /\ IsPrefix(q.stages, << "validate input" >>)
                      /\ q.pc \in {"called", "returned"}
                /\ q.coords.status = "rejected" =>
                      IsPrefix(q.stages, SubSeq(StageOrder, 1, 2)) /\ q.ephemerisCalls = 0
                /\ q.horoscope.status = "rejected" =>
                      IsPrefix(q.stages, SubSeq(StageOrder, 1, 3))
                /\ q.pc = "returned" =>
                      IF q.response.isError
                      THEN \/ ~InputIsValid(q.args) /\ q.stages = SubSeq(StageOrder, 1, 1)
                           \/ q.coords.status = "rejected" /\ q.stages = SubSeq(StageOrder, 1, 2)
                           \/ q.horoscope.status = "rejected" /\ q.stages = SubSeq(StageOrder, 1, 3)
                           \/ q.stages = StageOrder /\ q.response.issues # << >>
                      ELSE /\ q.stages = StageOrder
                           /\ InputIsValid(q.args)
                           /\ q.coords.status = "resolved"
                           /\ q.horoscope.status = "resolved"
                           /\ NatalChartOutputSchemaIssues(q.response.result) = << >>)
    /\ [][HandlerRuns => StagesOnlyGrow]_vars

\* C19 witness: one call stopped at input validation without a geocoder or
\* ephemeris call, the other stopped in the chart computation, after the
\* geocoder answered, without formatting anything.
C19_Witness ==
    /\ HandlerRuns
    /\ ReturnedRequests = RequestIds
    /\ \E r \in RequestIds :
          /\ ~InputIsValid(requests[r].args)
          /\ requests[r].stages = << "validate input" >>
          /\ requests[r].response.isError
    /\ \E r \in RequestIds :
          /\ requests[r].stages = SubSeq(StageOrder, 1, 3)
          /\ requests[r].horoscope.status = "rejected"
          /\ requests[r].response.isError

\* C19 witness of the last stage: output validation refused the report
\* after the four stages before it had run.
C19_WitnessOutputRefused ==
    /\ HandlerRuns
    /\ \E r \in ReturnedRequests :
          /\ requests[r].stages = StageOrder
          /\ requests[r].response.isError

\* A location text that parses as a JSON object with numeric latitude and
\* longitude.
ParsesAsCoordinates(text) ==
    LET parsed == JSONParse(text)
    IN  IF ~parsed.ok THEN FALSE
        ELSE IF parsed.value.t # "object" THEN FALSE
        ELSE parsed.value.latitude.t = "number" /\ parsed.value.longitude.t = "number"

GeocoderFindsCoordinates(text) ==
    LET answer == GeocoderAnswer(text)
    IN  IF answer.status # "results" THEN FALSE
        ELSE IF answer.results = << >> THEN FALSE
        ELSE answer.results[1].latitude.t = "number" /\ answer.results[1].longitude.t = "number"

\* C20: getCoordinates calls the geocoder only for a location string that
\* does not parse as a JSON object with numeric latitude and longitude, and
\* then once, with that string; coordinates given as an object come back
\* unchanged with no geocoder call; when the geocoder finds no match, or a
\* match without coordinates, getCoordinates fails and handleNatalChart
\* returns an error without starting the chart calculation.
C20_GeocoderOnlyForPlaceNames ==
    HandlerRuns => \A r \in RequestIds :
        LET q   == requests[r]
            loc == q.validatedArgs.location
        IN  IF Len(q.stages) < 2 THEN q.geocoderCalls = << >>
            ELSE /\ IF loc.t = "string" /\ ~ParsesAsCoordinates(loc.v)
                    THEN q.geocoderCalls = << loc >>
                    ELSE q.geocoderCalls = << >>
                 /\ loc.t = "object" =>
                       /\ q.coords.status = "resolved"
                       /\ q.coords.coords.latitude = loc.latitude
                       /\ q.coords.coords.longitude = loc.longitude
                 /\ (q.geocoderCalls # << >> /\ q.pc # "await geocoder"
                        /\ ~GeocoderFindsCoordinates(loc.v)) =>
                       /\ q.coords.status = "rejected"
                       /\ q.horoscope = NoValue
                       /\ q.ephemerisCalls = 0
                       /\ q.stages = SubSeq(StageOrder, 1, 2)
                       /\ q.pc = "returned" => q.response.isError

\* C20 witness: a place the geocoder does not know, and a match that came
\* without coordinates, each ended in an error after one geocoder call and
\* no ephemeris call.
C20_Witness ==
    /\ HandlerRuns
    /\ ReturnedRequests = RequestIds
    /\ requests[1].geocoderCalls = << JsString("Atlantis") >>
    /\ requests[2].geocoderCalls = << JsString("Null Island") >>
    /\ \A r \in RequestIds :
          /\ requests[r].response.isError
          /\ requests[r].ephemerisCalls = 0
          /\ "compute chart" \notin {requests[r].stages[i] : i \in DOMAIN requests[r].stages}

\* C20 witness of the direct path: a JSON text with numeric coordinates was
\* resolved without the geocoder and the chart was computed.
C20_WitnessJsonText ==
    /\ HandlerRuns
    /\ \E r \in ReturnedRequests :
          /\ requests[r].args.location = JsString(JsonCoordinates)
          /\ requests[r].geocoderCalls = << >>
          /\ requests[r].coords.coords.latitude = 41
          /\ ~requests[r].response.isError

----------------------------------------------------------------------------
(* Chart angles in double arithmetic: claims *)

\* The second angle is the first one taken six signs on: sign index + 6
\* mod 12, same degree in sign, same formatted degree.
SixSignsOn(first, second, firstDegree, secondDegree) ==
    /\ SignIndexOf(second.sign) = (SignIndexOf(first.sign) + 6) % 12
    /\ degreeToZodiacSignDouble(secondDegree).degreeInSign
          = degreeToZodiacSignDouble(firstDegree).degreeInSign
    /\ second.degree = first.degree

\* C30: for ascendant and midheaven in [0,360) the descendant is the
\* ascendant six signs on, with the same degree in sign and the same
\* formatted degree, and the imum coeli the midheaven six signs on; the
\* derivation applied twice gives the longitude it started from.
C30_OppositeAnglesSixSignsOn ==
    pc = "done" =>
        LET a == chartData.houses.ascendant
            m == chartData.houses.mc
        IN  /\ SixSignsOn(report.chartAngles.ascendant, report.chartAngles.descendant,
                          a, OppositeDegreeDouble(a))
            /\ SixSignsOn(report.chartAngles.midheaven, report.chartAngles.imumCoeli,
                          m, OppositeDegreeDouble(m))
            /\ OppositeDegreeDouble(OppositeDegreeDouble(a)) = a
            /\ OppositeDegreeDouble(OppositeDegreeDouble(m)) = m

\* The reports in which the relation holds: angles that are multiples of
\* 1/16 of a degree.
C30_HoldsOnSixteenths ==
    /\ pc = "done"
    /\ chartData.houses.ascendant = Double(1601, 0)
    /\ chartData.houses.mc = Double(1217, 0)
    /\ report.chartAngles.ascendant.sign = "Cancer"
    /\ report.chartAngles.descendant.sign = "Capricorn"
    /\ report.chartAngles.descendant.degree = [deg |-> 10, min |-> 3, sec |-> 45]
    /\ report.chartAngles.descendant.degree = report.chartAngles.ascendant.degree
    /\ report.chartAngles.descendant.longitude = Deg(280) + UnitsPerDegree \div 16

\* The report for the ascendant 30 - 2560 * 2^-56: ascendant in Aries at
\* 29 59 59, descendant in Scorpio at 0 0 0.
C30_DescendantSevenSignsOn ==
    /\ pc = "done"
    /\ chartData.houses.ascendant = Double(480, -2560)
    /\ report.chartAngles.ascendant.sign = "Aries"
    /\ report.chartAngles.ascendant.degree = [deg |-> 29, min |-> 59, sec |-> 59]
    /\ report.chartAngles.descendant.sign = "Scorpio"
    /\ report.chartAngles.descendant.degree = [deg |-> 0, min |-> 0, sec |-> 0]

----------------------------------------------------------------------------
(* Chart calculation inside a tool call: claims *)

\* The requests for which handleNatalChart has called calculateNatalChart.
ChartRequested == {r \in DOMAIN requests : requests[r].horoscope # NoValue}

NoTimezoneFor(q) == findTimezone(q.coords.coords.latitude, q.coords.coords.longitude) = << >>

LastOf(parts) == parts[Len(parts)]

ZoneOffset(q) == findTimezone(q.coords.coords.latitude, q.coords.coords.longitude)[1]

\* C26: the year, month, day and UTC hour handed to julianDay denote the
\* instant of the local birth time in its zone: the local calendar day at
\* the local time of day less the zone's offset, also when that falls into
\* the day before or the day after.
C26_JulianDayIsTheLocalInstant ==
    HandlerRuns => \A r \in ChartRequested :
        LET q  == requests[r]
            dt == q.validatedArgs.datetime
        IN  q.horoscope.status = "resolved" =>
                q.horoscope.value.julianDay
                    = julianDay(dt.year, dt.month, dt.day,
                                dt.hour * 60 + dt.minute - ZoneOffset(q))

\* The member of HouseSystem a house system name stands for.
HouseSystemNamed(name) ==
    IF name = "Whole Sign" THEN "HouseSystem.WholeSign" ELSE "HouseSystem." \o name

\* C27: the houseSystem of birthData names the house system handed to
\* calculateHouses, for every houseSystem string input validation accepts.
C27_ReportedHouseSystemIsUsed ==
    HandlerRuns => \A r \in ReturnedRequests :
        ~requests[r].response.isError =>
            requests[r].horoscope.value.houseSystem
                = HouseSystemNamed(requests[r].response.result.birthData.houseSystem)

----------------------------------------------------------------------------
(* The request handlers of the server: claims *)

\* The tool calls the CallTool request handler has settled.
SettledCalls ==
    {r \in DOMAIN requests :
        requests[r].method = "tools/call" /\ requests[r].pc = "settled"}

\* A tool response: an object that says whether it reports an error.
IsResponse(value) == "isError" \in DOMAIN value

\* The input is one the schema of the handler registered under the name
\* accepts.
AcceptedInput(q) ==
    IF toolHandlers[q.name] = "handleNatalChart" THEN InputIsValid(q.args)
    ELSE GetCoordinatesArgsSchemaParse(q.args).ok

IsUnknownTool(response) == response.isError /\ response.text = << "Error", "Unknown tool" >>

\* What the claim asks of a settled call.
AnsweredAsClaimed(q) ==
    /\ ~q.completion.threw
    /\ IsResponse(q.completion.value)
    /\ IF q.name \notin DOMAIN toolHandlers THEN q.completion.value.isError
       ELSE IF ~AcceptedInput(q)
       THEN /\ q.completion.value.isError
            /\ q.completion.value.text = << "Input validation error" >>
            /\ q.completion.value.issues # << >>
       ELSE q.completion.value.isError = (q.completion.value.text # << "result" >>)

\* C23: the CallTool request handler never throws and answers every tool
\* name and every argument value with a response: one with isError true for
\* a name toolHandlers does not register, for an input the schema refuses
\* (listing the paths of the offending fields) and for an error raised in
\* the handler, and one without isError for a successful call.
C23_CallToolAlwaysAnswers ==
    \A r \in SettledCalls : AnsweredAsClaimed(requests[r])

\* The same holds of every name that is not a member of Object.prototype.
C23_HoldsOffObjectPrototype ==
    \A r \in SettledCalls :
        requests[r].name \notin ObjectPrototypeMembers => AnsweredAsClaimed(requests[r])

\* A call of "toString" is answered with a string, not with a response.
C23_ToStringAnswersAString ==
    \E r \in SettledCalls :
        /\ requests[r].name = "toString"
        /\ requests[r].completion = Return(JsString("[object Undefined]"))

\* The names the ListTools request handler advertises.
AdvertisedNames == {ListToolsRequestHandler.value.tools[i].name :
                        i \in DOMAIN ListToolsRequestHandler.value.tools}

\* C28: toolHandlers registers a handler under the name of every entry of
\* the tools list, and no call under an advertised name is answered with
\* the "Unknown tool" error.
C28_AdvertisedToolsAreRegistered ==
    \A r \in SettledCalls :
        requests[r].name \in AdvertisedNames =>
            /\ AdvertisedNames \subseteq DOMAIN toolHandlers
            /\ ~(IsResponse(requests[r].completion.value)
                   /\ IsUnknownTool(requests[r].completion.value))

\* Under either registry one of the two advertised names is not registered.
C28_OneAdvertisedNameUnknown ==
    \E r \in SettledCalls :
        /\ requests[r].name \in AdvertisedNames
        /\ IsUnknownTool(requests[r].completion.value)

C28_UnknownUnderAstrologyNames ==
    toolHandlers = toolHandlersAstrology /\ C28_OneAdvertisedNameUnknown

C28_UnknownUnderAstroNames ==
    toolHandlers = toolHandlersAstro /\ C28_OneAdvertisedNameUnknown

====
